---------------------------- MODULE Spec2Model ----------------------------
(***************************************************************************)
(* A model of the run-and-gun prototype's simulation core: Animation,      *)
(* Weapon/Bullet, the tile level and the movers (Player, NormalEnemy,      *)
(* BossEnemy).                                                             *)
(*                                                                         *)
(* Units.  Time is counted in 1/6000 s (Ms(1) = 6 units), so that 1/60 s,  *)
(* 1/30 s, whole milliseconds and every duration of the program are whole  *)
(* numbers.  A mover's velocity is counted in 1/VelDen px/s and its float  *)
(* position in 1/SubPx px, SubPx = 6000 * VelDen, so that vel += g * dt    *)
(* and pos += vel * dt are exact.  Rectangles, and a Bullet's velocity,    *)
(* are in whole pixels (per second), as pygame.Rect is.  Arithmetic is     *)
(* exact: the model does not follow IEEE rounding error.                   *)
(***************************************************************************)
EXTENDS Integers, Sequences, FiniteSets, TLC

VARIABLES
    anim,        \* the Animation object under test (SpecAnim)
    animPrev,    \* the Animation object as it was before the last call
    animCall,    \* the last call on it: [op, dt, speed]
    animHist     \* history of the calls since construction or reset:
                 \* [unit: every update had speed 1 and dt <= 1/30,
                 \*  T: sum of their dt (kept while unit holds),
                 \*  fit: every update's step was <= frame_duration,
                 \*  calls: number of calls since construction]

VARIABLES
    weapon,      \* the Weapon object under test (SpecWeapon)
    bullets,     \* the projectile collection its shots are added to
    wPrev,       \* weapon and bullets as they were before the last call
    wCall,       \* the last call: [op, dt, pos, direction]
    wHist        \* history of the calls since construction:
                 \* [clock: sum of the dt of the update calls,
                 \*  shots: the clock values at which a projectile spawned,
                 \*  reqs: number of shoot calls,
                 \*  script: the fire requests followed ScenarioTimes so far
                 \*          (the index of the next one, 0 once they differ)]

VARIABLES
    level,       \* the name of the loaded tile level (SpecMover, SpecFall,
                 \* SpecRest)
    who,         \* the kind of mover whose update is driven: "player",
                 \* "enemy" or "boss"
    player,      \* the Player object
    enemies,     \* level.enemies, the group of NormalEnemy objects
    boss,        \* level.boss: empty (None) or one BossEnemy object
    boss_bullets,\* the group the boss's shots are added to
    ticks,       \* number of update ticks so far
    trace        \* the last tick of the first mover of kind `who`:
                 \* [dt, pre: its rectangle when the tick began,
                 \*  afterX: its rectangle after the horizontal step,
                 \*  hitX, hitY: the moved rectangle met a solid tile,
                 \*  rest: consecutive ticks without horizontal movement
                 \*        since a tick began at rest on a tile,
                 \*  grounded: on_ground after the ground probe,
                 \*  jumped: the tick executed a jump,
                 \*  air: time since the last tick that ended grounded,
                 \*  preAir: air when the tick began,
                 \*  walked: it left the ground without a jump,
                 \*  preWalk: walked, and airborne, when the tick began,
                 \*  fresh: queue_jump arrived since the tick before]

VARIABLES
    state,       \* Game.state: "PLAYING", "GAME_OVER", "LEVEL_COMPLETE", ...
    pickups,     \* level.pickups, the group of PickUp objects
    hCall,       \* the last call that bears on an entity's health:
                 \* [op, amount, before, after], the entity before and
                 \* after the call
    log          \* what the last Game.update did (SpecGame)

VARIABLES
    csv,         \* the rows of a level CSV as csv.reader yields them: the
                 \* texts of their cells
    loaded       \* what loading it gave: [op, error, level]

animVars == <<anim, animPrev, animCall, animHist>>

weaponVars == <<weapon, bullets, wPrev, wCall, wHist>>

moverVars == <<level, who, player, enemies, boss, boss_bullets, ticks, trace>>

loadVars == <<csv, loaded>>

gameVars == <<state, pickups, hCall, log, csv, loaded>>

vars == <<anim, animPrev, animCall, animHist,
          weapon, bullets, wPrev, wCall, wHist,
          level, who, player, enemies, boss, boss_bullets, ticks, trace,
          state, pickups, hCall, log, csv, loaded>>

---------------------------------------------------------------------------
(* Units and arithmetic *)

Ms(n) == 6 * n

\* velocities are counted in twentieths of a px/s (0.45 = 9/20)
VelDen == 20

Vel(v) == v * VelDen

SubPx == Ms(1000) * VelDen

\* a whole pixel coordinate as a float position
Px(n) == n * SubPx

\* Python's round() of a float position: to the nearest integer, a half to
\* the even one
Round(pos) ==
    LET q == pos \div SubPx
        r == pos % SubPx
    IN  IF 2 * r < SubPx THEN q
        ELSE IF 2 * r > SubPx THEN q + 1
        ELSE IF q % 2 = 0 THEN q ELSE q + 1

Max(a, b) == IF a >= b THEN a ELSE b

Min(a, b) == IF a <= b THEN a ELSE b

Abs(a) == IF a >= 0 THEN a ELSE -a

\* dt = 1/60 s and dt = 1/30 s
DT60 == Ms(1000) \div 60

DT30 == Ms(1000) \div 30

---------------------------------------------------------------------------
(* animation.py *)

\* speed is counted in halves: the default speed 1.0 is 2
SpeedDen == 2

\* max(0.001, frame_duration)
MinFrameDuration == Ms(1)

Animation(frames, frame_duration, loop) ==
    [frames         |-> frames,
     frame_duration |-> Max(MinFrameDuration, frame_duration),
     loop           |-> loop,
     index          |-> 0,
     timer          |-> 0,
     finished       |-> FALSE]

AnimReset(a) == [a EXCEPT !.index = 0, !.timer = 0, !.finished = FALSE]

\* mutant: a non-looping animation finishes on reaching its last frame
AnimAdvanceEarly(a) ==
    LET i == a.index + 1
        t == a.timer - a.frame_duration
    IN  IF i >= a.frames - 1 /\ ~a.loop
        THEN [a EXCEPT !.timer = t, !.index = a.frames - 1,
                       !.finished = TRUE]
        ELSE IF i >= a.frames
             THEN [a EXCEPT !.timer = t, !.index = 0]
             ELSE [a EXCEPT !.timer = t, !.index = i]

\* the frame advance of update, once the timer has reached frame_duration
AnimAdvance(a) ==
    LET i == a.index + 1
        t == a.timer - a.frame_duration
    IN  IF i >= a.frames
        THEN IF a.loop
             THEN [a EXCEPT !.timer = t, !.index = 0]
             ELSE [a EXCEPT !.timer = t, !.index = a.frames - 1,
                            !.finished = TRUE]
        ELSE [a EXCEPT !.timer = t, !.index = i]

\* mutant: consumes every whole frame_duration held by the timer
RECURSIVE AnimAdvanceAll(_)
AnimAdvanceAll(a) ==
    LET b == AnimAdvance(a)
    IN  IF b.timer >= b.frame_duration /\ ~b.finished
        THEN AnimAdvanceAll(b) ELSE b

AnimUpdateWhile(a, dt, speed) ==
    IF a.finished THEN a
    ELSE LET sp == Max(0, speed)
         IN  IF sp = 0 THEN a
             ELSE LET d == Min(dt, DT30)
                      b == [a EXCEPT !.timer = a.timer + (d * sp) \div SpeedDen]
                  IN  IF b.timer >= b.frame_duration
                      THEN AnimAdvanceAll(b) ELSE b

\* mutant: frame advance only when the timer is strictly above the duration
AnimUpdateStrict(a, dt, speed) ==
    IF a.finished THEN a
    ELSE LET sp == Max(0, speed)
         IN  IF sp = 0 THEN a
             ELSE LET d == Min(dt, DT30)
                      b == [a EXCEPT !.timer = a.timer + (d * sp) \div SpeedDen]
                  IN  IF b.timer > b.frame_duration
                      THEN AnimAdvance(b) ELSE b

\* mutant: the frame advance drops the remainder of the timer
AnimUpdateZero(a, dt, speed) ==
    IF a.finished THEN a
    ELSE LET sp == Max(0, speed)
         IN  IF sp = 0 THEN a
             ELSE LET d == Min(dt, DT30)
                      b == [a EXCEPT !.timer = a.timer + (d * sp) \div SpeedDen]
                  IN  IF b.timer >= b.frame_duration
                      THEN [AnimAdvance(b) EXCEPT !.timer = 0] ELSE b

AnimUpdate(a, dt, speed) ==
    IF a.finished THEN a
    ELSE LET sp == Max(0, speed)
         IN  IF sp = 0 THEN a
             ELSE LET d == Min(dt, DT30)
                      b == [a EXCEPT !.timer = a.timer + (d * sp) \div SpeedDen]
                  IN  IF b.timer >= b.frame_duration
                      THEN AnimAdvance(b) ELSE b

---------------------------------------------------------------------------
(* weapon.py *)

BULLET_SPEED == 560

BULLET_LIFETIME == Ms(1200)

BULLET_W == 10

BULLET_H == 4

\* mutant: the velocity ignores the direction
BulletNoDirection(pos, direction) ==
    [x |-> pos.x - BULLET_W \div 2, y |-> pos.y - BULLET_H \div 2,
     w |-> BULLET_W, h |-> BULLET_H,
     vx |-> BULLET_SPEED, vy |-> 0,
     lifetime |-> BULLET_LIFETIME, alive_time |-> 0]

\* Bullet(pos, direction): a 10 x 4 rectangle centred on pos
Bullet(pos, direction) ==
    [x |-> pos.x - BULLET_W \div 2, y |-> pos.y - BULLET_H \div 2,
     w |-> BULLET_W, h |-> BULLET_H,
     vx |-> BULLET_SPEED * direction, vy |-> 0,
     lifetime |-> BULLET_LIFETIME, alive_time |-> 0]

\* Weapon(): cooldown 0.15 s, time_since_shot 999.0
Weapon == [cooldown |-> Ms(150), time_since_shot |-> Ms(999000)]

WeaponUpdate(wp, dt) ==
    [wp EXCEPT !.time_since_shot = wp.time_since_shot + dt]

\* mutant: ready only once the timer is strictly above the cooldown
CanShootStrict(wp) == wp.time_since_shot > wp.cooldown

CanShoot(wp) == wp.time_since_shot >= wp.cooldown

\* mutant: shoots whether or not the weapon is ready
WeaponShootAlways(wp, group, pos, direction) ==
    [weapon  |-> [wp EXCEPT !.time_since_shot = 0],
     bullets |-> Append(group, Bullet(pos, direction))]

\* mutant: a shot leaves time_since_shot as it was
WeaponShootNoReset(wp, group, pos, direction) ==
    IF ~CanShoot(wp)
    THEN [weapon |-> wp, bullets |-> group]
    ELSE [weapon |-> wp, bullets |-> Append(group, Bullet(pos, direction))]

\* Weapon.shoot: the weapon and the group after the call
WeaponShoot(wp, group, pos, direction) ==
    IF ~CanShoot(wp)
    THEN [weapon |-> wp, bullets |-> group]
    ELSE [weapon  |-> [wp EXCEPT !.time_since_shot = 0],
          bullets |-> Append(group, Bullet(pos, direction))]

---------------------------------------------------------------------------
(* level.py *)

TILE_SIZE == 16

EMPTY == 0

PLAYER_SPAWN == 90

ENEMY_SPAWN == 91

PICKUP_HEALTH == 92

BOSS_SPAWN == 93

EXIT_FLAG == 94

\* solid_ids = {SOLID_01, SOLID_02, SOLID_03}
SolidIds == {1, 2, 3}

Rect(x, y, w, h) == [x |-> x, y |-> y, w |-> w, h |-> h]

\* the rectangle of a sprite
RectOf(e) == Rect(e.x, e.y, e.w, e.h)

\* pygame.Rect.colliderect: the rectangles overlap (touching edges do not)
Collide(a, b) ==
    /\ a.x < b.x + b.w
    /\ b.x < a.x + a.w
    /\ a.y < b.y + b.h
    /\ b.y < a.y + a.h

\* the cells of a grid in the order load_csv visits them: row by row
GridCells(grid) ==
    LET height == Len(grid)
        width  == IF height > 0 THEN Len(grid[1]) ELSE 0
    IN  [k \in 1..(width * height) |->
            [gx |-> (k - 1) % width,
             gy |-> (k - 1) \div width,
             id |-> grid[((k - 1) \div width) + 1][((k - 1) % width) + 1]]]

\* the cells holding tile id `id`, in that order
CellsOf(grid, id) == SelectSeq(GridCells(grid), LAMBDA c : c.id = id)

\* the spawn point of a 32 px high sprite marked at cell c
SpawnAt(c, height) ==
    [x |-> c.gx * TILE_SIZE, y |-> c.gy * TILE_SIZE - (height - TILE_SIZE)]

\* Level.load_csv: the fields of the level loaded from a rectangular grid.
\* enemies, pickups and boss hold the spawn points handed to the
\* constructors; a marker met later replaces player_spawn, boss, exit_rect.
LoadCsv(grid) ==
    LET height  == Len(grid)
        width   == IF height > 0 THEN Len(grid[1]) ELSE 0
        cells   == GridCells(grid)
        solids  == SelectSeq(cells, LAMBDA c : c.id \in SolidIds)
        players == CellsOf(grid, PLAYER_SPAWN)
        bosses  == CellsOf(grid, BOSS_SPAWN)
        exits   == CellsOf(grid, EXIT_FLAG)
        foes    == CellsOf(grid, ENEMY_SPAWN)
        picks   == CellsOf(grid, PICKUP_HEALTH)
    IN  [width        |-> width,
         height       |-> height,
         pixel_width  |-> width * TILE_SIZE,
         pixel_height |-> height * TILE_SIZE,
         solid_rects  |->
            [i \in 1..Len(solids) |->
                Rect(solids[i].gx * TILE_SIZE, solids[i].gy * TILE_SIZE,
                     TILE_SIZE, TILE_SIZE)],
         player_spawn |->
            IF Len(players) = 0 THEN [x |-> 0, y |-> 0]
            ELSE SpawnAt(players[Len(players)], 32),
         enemies      |-> [i \in 1..Len(foes) |-> SpawnAt(foes[i], 32)],
         pickups      |-> [i \in 1..Len(picks) |-> SpawnAt(picks[i], 32)],
         boss         |->
            IF Len(bosses) = 0 THEN <<>>
            ELSE <<SpawnAt(bosses[Len(bosses)], 64)>>,
         exit_rect    |->
            IF Len(exits) = 0 THEN <<>>
            ELSE <<Rect(exits[Len(exits)].gx * TILE_SIZE,
                        exits[Len(exits)].gy * TILE_SIZE - TILE_SIZE,
                        TILE_SIZE, TILE_SIZE)>>]

\* int(cell.strip()) on the cell texts tried: [ok, val]; ok = FALSE is
\* ValueError
ParseInt(text) ==
    CASE text = "1"  -> [ok |-> TRUE, val |-> 1]
      [] text = " 0" -> [ok |-> TRUE, val |-> 0]
      [] OTHER       -> [ok |-> FALSE, val |-> 0]

\* load_csv's loops read grid[gy][gx] for gx < width = len(grid[0]): a
\* shorter row raises IndexError, the cells of a longer row beyond width
\* are not read
Ragged(grid) ==
    \E r \in DOMAIN grid : Len(grid[r]) < Len(grid[1])

\* Level.load_csv on the rows csv.reader yields: the error raised, and the
\* level if none was.  The list comprehension parses every cell before the
\* loops run.
LoadCsvText(rows) ==
    IF \E r \in DOMAIN rows : \E c \in DOMAIN rows[r] :
          ~ParseInt(rows[r][c]).ok
    THEN [op |-> "load", error |-> "ValueError", level |-> <<>>]
    ELSE LET grid == [r \in DOMAIN rows |->
                         [c \in DOMAIN rows[r] |-> ParseInt(rows[r][c]).val]]
         IN  IF Ragged(grid)
             THEN [op |-> "load", error |-> "IndexError", level |-> <<>>]
             ELSE [op |-> "load", error |-> "none",
                   level |-> <<LoadCsv(grid)>>]

\* Level.get_solid_hits
GetSolidHits(L, rect) == SelectSeq(L.solid_rects, LAMBDA t : Collide(t, rect))

\* Level.rect_collides_solid
RectCollidesSolid(L, rect) ==
    \E i \in DOMAIN L.solid_rects : Collide(L.solid_rects[i], rect)

---------------------------------------------------------------------------
(* weapon.py: Bullet.update *)

\* int(v): truncation toward zero of n / d
Trunc(n, d) == IF n >= 0 THEN n \div d ELSE -((-n) \div d)

\* rect.x += int(vel.x * dt); rect.y += int(vel.y * dt); alive_time += dt
BulletMoved(b, dt) ==
    [b EXCEPT !.x = b.x + Trunc(b.vx * dt, Ms(1000)),
              !.y = b.y + Trunc(b.vy * dt, Ms(1000)),
              !.alive_time = b.alive_time + dt]

\* mutant: no despawn after the lifetime
BulletUpdateNoLifetime(b, dt, L) ==
    [bullet |-> BulletMoved(b, dt),
     alive  |-> ~RectCollidesSolid(L, RectOf(BulletMoved(b, dt)))]

\* mutant: no despawn on solid tiles
BulletUpdateNoTiles(b, dt, L) ==
    [bullet |-> BulletMoved(b, dt),
     alive  |-> BulletMoved(b, dt).alive_time < BulletMoved(b, dt).lifetime]

\* Bullet.update: the bullet after the call, and whether it is still in its
\* groups (kill() removes it)
BulletUpdate(b, dt, L) ==
    LET m == BulletMoved(b, dt)
    IN  [bullet |-> m,
         alive  |-> IF m.alive_time >= m.lifetime THEN FALSE
                    ELSE ~RectCollidesSolid(L, RectOf(m))]

\* mutant: the bullets that kill themselves stay in the group
BulletsUpdateAll(group, dt, L) ==
    [i \in DOMAIN group |-> BulletUpdate(group[i], dt, L).bullet]

\* for b in list(group): b.update(dt, level)
BulletsUpdate(group, dt, L) ==
    LET upd == [i \in DOMAIN group |-> BulletUpdate(group[i], dt, L)]
        kept == SelectSeq(upd, LAMBDA r : r.alive)
    IN  [i \in DOMAIN kept |-> kept[i].bullet]

---------------------------------------------------------------------------
(* The steps of update that Player, NormalEnemy and BossEnemy share *)

GRAVITY == 1800

\* rect.centerx, rect.centery
CenterX(e) == e.x + e.w \div 2

CenterY(e) == e.y + e.h \div 2

\* vel.y += GRAVITY * dt
Gravity(e, dt) == [e EXCEPT !.vy = e.vy + (Vel(GRAVITY) * dt) \div Ms(1000)]

\* the rectangle after pos.x += vel.x * dt; rect.x = round(pos.x)
MovedX(e, dt) == Rect(Round(e.px + e.vx * dt), e.y, e.w, e.h)

\* the rectangle after pos.y += vel.y * dt; rect.y = round(pos.y)
MovedY(e, dt) == Rect(e.x, Round(e.py + e.vy * dt), e.w, e.h)

\* mutant: the vertical snap leaves the float position where it was
RECURSIVE ResolveYNoSync(_, _, _)
ResolveYNoSync(e, hits, i) ==
    IF i > Len(hits) THEN e
    ELSE LET t == hits[i]
             q == IF e.vy > 0
                  THEN [e EXCEPT !.y = t.y - e.h, !.vy = 0, !.on_ground = TRUE]
                  ELSE IF e.vy < 0
                       THEN [e EXCEPT !.y = t.y + t.h, !.vy = 0]
                       ELSE e
         IN  ResolveYNoSync(q, hits, i + 1)

MoveYNoSync(e, dt, L) ==
    LET q == [e EXCEPT !.py = e.py + e.vy * dt,
                       !.y = Round(e.py + e.vy * dt),
                       !.on_ground = FALSE]
    IN  ResolveYNoSync(q, GetSolidHits(L, RectOf(q)), 1)

\* for tile_rect in hits: snap below or above the tile, pos.y = rect.y
RECURSIVE ResolveY(_, _, _)
ResolveY(e, hits, i) ==
    IF i > Len(hits) THEN e
    ELSE LET t == hits[i]
             q == IF e.vy > 0
                  THEN [e EXCEPT !.y = t.y - e.h, !.vy = 0, !.on_ground = TRUE]
                  ELSE IF e.vy < 0
                       THEN [e EXCEPT !.y = t.y + t.h, !.vy = 0]
                       ELSE e
         IN  ResolveY([q EXCEPT !.py = Px(q.y)], hits, i + 1)

\* mutant: a landing leaves on_ground False and a bumped head keeps vel.y
MoveYNoLanding(e, dt, L) ==
    LET q == [e EXCEPT !.py = e.py + e.vy * dt,
                       !.y = Round(e.py + e.vy * dt),
                       !.on_ground = FALSE]
        r == ResolveY(q, GetSolidHits(L, RectOf(q)), 1)
    IN  [r EXCEPT !.on_ground = FALSE,
                  !.vy = IF e.vy < 0 THEN e.vy ELSE r.vy]

\* the vertical step: move, on_ground = False, resolve the hits in order
MoveY(e, dt, L) ==
    LET q == [e EXCEPT !.py = e.py + e.vy * dt,
                       !.y = Round(e.py + e.vy * dt),
                       !.on_ground = FALSE]
    IN  ResolveY(q, GetSolidHits(L, RectOf(q)), 1)

\* mutant: no ground probe
GroundProbeOff(e, L) == e

\* the ground probe: a solid tile one pixel below the rectangle
GroundProbe(e, L) ==
    IF ~e.on_ground /\ Len(GetSolidHits(L, Rect(e.x, e.y + 1, e.w, e.h))) > 0
    THEN [e EXCEPT !.on_ground = TRUE]
    ELSE e

---------------------------------------------------------------------------
(* player.py *)

PLAYER_SPEED == 260

JUMP_SPEED == 620

PLAYER_MAX_HEALTH == 100

JUMP_BUFFER_TIME == Ms(120)

COYOTE_TIME == Ms(100)

Player(pos) ==
    [x |-> pos.x, y |-> pos.y, w |-> 32, h |-> 32,
     px |-> Px(pos.x), py |-> Px(pos.y),
     vx |-> 0, vy |-> 0,
     on_ground |-> FALSE, facing |-> 1, moving |-> FALSE,
     jump_buffer |-> 0, coyote_timer |-> 0,
     weapon |-> Weapon,
     health |-> PLAYER_MAX_HEALTH, max_health |-> PLAYER_MAX_HEALTH,
     invuln_time |-> 0,
     anims |-> [idle |-> Animation(6, Ms(150), TRUE),
                run  |-> Animation(8, Ms(200), TRUE),
                jump |-> Animation(8, Ms(120), TRUE)],
     current_anim |-> "idle"]

\* keys = [a |-> K_a is down, d |-> K_d is down]
HandleInput(p, keys) ==
    LET l == IF keys.a
             THEN [p EXCEPT !.vx = -Vel(PLAYER_SPEED), !.facing = -1,
                            !.moving = TRUE]
             ELSE [p EXCEPT !.vx = 0, !.moving = FALSE]
    IN  IF keys.d
        THEN [l EXCEPT !.vx = l.vx + Vel(PLAYER_SPEED), !.facing = 1,
                       !.moving = TRUE]
        ELSE l

QueueJump(p) == [p EXCEPT !.jump_buffer = JUMP_BUFFER_TIME]

\* mutant: a release while rising stops the rise
CutJumpStop(p) == IF p.vy < 0 THEN [p EXCEPT !.vy = 0] ELSE p

\* cut_jump: if self.vel.y < 0: self.vel.y *= 0.45
CutJump(p) == IF p.vy < 0 THEN [p EXCEPT !.vy = (45 * @) \div 100] ELSE p

\* mutant: the coyote timer does not decay
PlayerTimersNoCoyote(p, dt) ==
    [p EXCEPT
        !.invuln_time  = IF @ > 0 THEN Max(0, @ - dt) ELSE @,
        !.jump_buffer  = IF @ > 0 THEN Max(0, @ - dt) ELSE @,
        !.weapon       = WeaponUpdate(@, dt)]

\* mutant: the timers are not clamped at 0
PlayerTimersNoClamp(p, dt) ==
    [p EXCEPT
        !.invuln_time  = IF @ > 0 THEN Max(0, @ - dt) ELSE @,
        !.jump_buffer  = IF @ > 0 THEN @ - dt ELSE @,
        !.coyote_timer = IF @ > 0 THEN @ - dt ELSE @,
        !.weapon       = WeaponUpdate(@, dt)]

\* the timers of update, and weapon.update(dt)
PlayerTimers(p, dt) ==
    [p EXCEPT
        !.invuln_time  = IF @ > 0 THEN Max(0, @ - dt) ELSE @,
        !.jump_buffer  = IF @ > 0 THEN Max(0, @ - dt) ELSE @,
        !.coyote_timer = IF @ > 0 THEN Max(0, @ - dt) ELSE @,
        !.weapon       = WeaponUpdate(@, dt)]

\* for tile_rect in hits: snap to the tile's edge, pos.x = rect.x
RECURSIVE PlayerResolveX(_, _, _)
PlayerResolveX(p, hits, i) ==
    IF i > Len(hits) THEN p
    ELSE LET t == hits[i]
             x1 == IF p.vx > 0 THEN t.x - p.w
                   ELSE IF p.vx < 0 THEN t.x + t.w
                   ELSE p.x
         IN  PlayerResolveX([p EXCEPT !.x = x1, !.px = Px(x1)], hits, i + 1)

\* the horizontal step of Player.update
PlayerMoveX(p, dt, L) ==
    LET q == [p EXCEPT !.px = p.px + p.vx * dt,
                       !.x = Round(p.px + p.vx * dt)]
    IN  PlayerResolveX(q, GetSolidHits(L, RectOf(q)), 1)

\* coyote time reset and buffered jump
PlayerJump(p) ==
    LET q == IF p.on_ground THEN [p EXCEPT !.coyote_timer = COYOTE_TIME]
             ELSE p
    IN  IF q.jump_buffer > 0 /\ (q.on_ground \/ q.coyote_timer > 0)
        THEN [q EXCEPT !.vy = -Vel(JUMP_SPEED), !.on_ground = FALSE,
                       !.coyote_timer = 0, !.jump_buffer = 0]
        ELSE q

\* mutant: the selected animation restarts on every call
SetAnimRestart(p, name, dt) ==
    [p EXCEPT !.current_anim = name,
              !.anims[name] = AnimUpdate(AnimReset(@), dt, SpeedDen)]

\* Player.set_anim with the default speed 1.0
SetAnim(p, name, dt) ==
    LET q == IF p.current_anim # name
             THEN [p EXCEPT !.current_anim = name,
                            !.anims[name] = AnimReset(@)]
             ELSE p
    IN  [q EXCEPT !.anims[name] = AnimUpdate(@, dt, SpeedDen)]

\* animation selection
PlayerSelectAnim(p, dt) ==
    IF ~p.on_ground THEN SetAnim(p, "jump", dt)
    ELSE IF p.moving THEN SetAnim(p, "run", dt)
    ELSE SetAnim(p, "idle", dt)

\* Player.update: the player up to the end of the horizontal step, up to the
\* end of the vertical step, and after the whole update
PlayerAfterX(p, dt, L) == PlayerMoveX(Gravity(PlayerTimers(p, dt), dt), dt, L)

PlayerAfterY(p, dt, L) == MoveY(PlayerAfterX(p, dt, L), dt, L)

PlayerUpdate(p, dt, L) ==
    PlayerSelectAnim(PlayerJump(GroundProbe(PlayerAfterY(p, dt, L), L)), dt)

---------------------------------------------------------------------------
(* enemies.py *)

\* EnemyBase.face_player: the direction toward the player
FacePlayer(e, target) == IF CenterX(target) > CenterX(e) THEN 1 ELSE -1

\* EnemyBase.apply_anim: current_anim.update(dt)
ApplyAnim(e, dt) == [e EXCEPT !.anim = AnimUpdate(@, dt, SpeedDen)]

NormalEnemy(pos) ==
    [x |-> pos.x, y |-> pos.y, w |-> 32, h |-> 32,
     px |-> Px(pos.x), py |-> Px(pos.y),
     vx |-> Vel(-80), vy |-> 0,
     health |-> 30, on_ground |-> FALSE, facing |-> 1, alive |-> TRUE,
     anim |-> Animation(6, Ms(100), TRUE)]

\* the horizontal step of NormalEnemy.update: on a collision undo the step,
\* reverse vel.x and flip facing
\* mutant: on a collision vel.x is reversed, facing is not
EnemyMoveXNoFlip(e, dt, L) ==
    LET q == [e EXCEPT !.px = e.px + e.vx * dt,
                       !.x = Round(e.px + e.vx * dt)]
    IN  IF RectCollidesSolid(L, RectOf(q))
        THEN [q EXCEPT !.px = q.px - q.vx * dt,
                       !.x = Round(q.px - q.vx * dt),
                       !.vx = -q.vx]
        ELSE q

EnemyMoveX(e, dt, L) ==
    LET q == [e EXCEPT !.px = e.px + e.vx * dt,
                       !.x = Round(e.px + e.vx * dt)]
    IN  IF RectCollidesSolid(L, RectOf(q))
        THEN [q EXCEPT !.px = q.px - q.vx * dt,
                       !.x = Round(q.px - q.vx * dt),
                       !.vx = -q.vx,
                       !.facing = -q.facing]
        ELSE q

EnemyAfterX(e, dt, L) == EnemyMoveX(Gravity(e, dt), dt, L)

EnemyAfterY(e, dt, L) == MoveY(EnemyAfterX(e, dt, L), dt, L)

\* NormalEnemy.update; kill() once the rectangle is 200 px below the level
NormalEnemyUpdate(e, dt, L, target) ==
    LET q == ApplyAnim(GroundProbe(EnemyAfterY(e, dt, L), L), dt)
    IN  IF q.y > L.pixel_height + 200 THEN [q EXCEPT !.alive = FALSE] ELSE q

\* BossEnemy(pos): a 64 x 64 rectangle with midbottom (pos.x + 32, pos.y + 32).
\* alive is Sprite.alive(): the sprite belongs to a group.  load_csv adds a
\* NormalEnemy to level.enemies, and keeps the boss in level.boss only.
BossEnemy(pos) ==
    [x |-> pos.x + 32 - 64 \div 2, y |-> pos.y + 32 - 64, w |-> 64, h |-> 64,
     px |-> Px(pos.x + 32 - 64 \div 2), py |-> Px(pos.y + 32 - 64),
     vx |-> 0, vy |-> 0, speed |-> Vel(110),
     health |-> 180, max_health |-> 180,
     on_ground |-> FALSE, facing |-> 1, alive |-> FALSE,
     weapon |-> [Weapon EXCEPT !.cooldown = Ms(600)],
     anim |-> Animation(2, Ms(300), TRUE)]

\* face the player and chase: vel.x = speed * direction
BossChase(b, target) ==
    [b EXCEPT !.facing = FacePlayer(b, target),
              !.vx = b.speed * FacePlayer(b, target)]

\* the horizontal step of BossEnemy.update: on a collision undo the step and
\* stop
BossMoveX(b, dt, L) ==
    LET q == [b EXCEPT !.px = b.px + b.vx * dt,
                       !.x = Round(b.px + b.vx * dt)]
    IN  IF RectCollidesSolid(L, RectOf(q))
        THEN [q EXCEPT !.px = q.px - q.vx * dt,
                       !.x = Round(q.px - q.vx * dt),
                       !.vx = 0]
        ELSE q

BossAfterX(b, dt, L, target) ==
    BossMoveX(Gravity(BossChase(b, target), dt), dt, L)

BossAfterY(b, dt, L, target) == MoveY(BossAfterX(b, dt, L, target), dt, L)

\* BossEnemy.update: the boss and the boss_bullets group after the call
BossUpdate(b, dt, L, target, group) ==
    LET q == ApplyAnim(GroundProbe(BossAfterY(b, dt, L, target), L), dt)
        w == WeaponUpdate(q.weapon, dt)
        d == q.facing
        r == IF CanShoot(w)
             THEN WeaponShoot(w, group,
                              [x |-> CenterX(q) + 18 * d, y |-> CenterY(q) - 8],
                              d)
             ELSE [weapon |-> w, bullets |-> group]
    IN  [boss |-> [q EXCEPT !.weapon = r.weapon], boss_bullets |-> r.bullets]

---------------------------------------------------------------------------
(* Health: player.py heal, take_damage, is_dead; enemies.py take_damage;    *)
(* pickup.py                                                                *)

INVULN_TIME == Ms(600)

\* mutant: heal without the clamp to max_health
PlayerHealUnclamped(p, amount) ==
    [p EXCEPT !.health = @ + amount]

\* Player.heal
PlayerHeal(p, amount) ==
    [p EXCEPT !.health = Min(p.max_health, @ + amount)]

\* mutant: take_damage without the invulnerability test
PlayerTakeDamageNoInvuln(p, amount) ==
    [p EXCEPT !.health = IF @ - amount < 0 THEN 0 ELSE @ - amount,
              !.invuln_time = INVULN_TIME]

\* mutant: take_damage that starts no invulnerability window
PlayerTakeDamageNoWindow(p, amount) ==
    IF p.invuln_time > 0 THEN p
    ELSE [p EXCEPT !.health = IF @ - amount < 0 THEN 0 ELSE @ - amount]

\* Player.take_damage
PlayerTakeDamage(p, amount) ==
    IF p.invuln_time > 0 THEN p
    ELSE [p EXCEPT !.health = IF @ - amount < 0 THEN 0 ELSE @ - amount,
                   !.invuln_time = INVULN_TIME]

\* Player.is_dead
IsDead(p) == p.health <= 0

\* mutant: the enemy is killed only once its health is below 0
EnemyTakeDamageLate(e, amount) ==
    [e EXCEPT !.health = @ - amount,
              !.alive = IF e.health - amount < 0 THEN FALSE ELSE @]

\* EnemyBase.take_damage: health -= amount; kill() at health <= 0.  kill()
\* takes the sprite out of its groups; on the boss, which is in none, it
\* changes nothing
EnemyTakeDamage(e, amount) ==
    [e EXCEPT !.health = @ - amount,
              !.alive = IF e.health - amount <= 0 THEN FALSE ELSE @]

\* ShooterEnemy.__init__ (level.py places none)
ShooterEnemy(pos) ==
    [x |-> pos.x, y |-> pos.y, w |-> 32, h |-> 32,
     health |-> 20, facing |-> 1, alive |-> TRUE,
     weapon |-> [Weapon EXCEPT !.cooldown = Ms(900)],
     spread_px |-> 14, range_px |-> 520,
     anim |-> Animation(8, Ms(250), TRUE)]

\* mutant: no range check
ShooterUpdateNoRange(sh, dt, target, group) ==
    LET q == ApplyAnim([sh EXCEPT !.facing = FacePlayer(sh, target)], dt)
        w == WeaponUpdate(q.weapon, dt)
        r == IF CanShoot(w)
             THEN WeaponShoot(w, group,
                              [x |-> CenterX(q) + 16 * q.facing,
                               y |-> CenterY(q) + 4],
                              q.facing)
             ELSE [weapon |-> w, bullets |-> group]
    IN  [shooter |-> [q EXCEPT !.weapon = r.weapon], bullets |-> r.bullets]

\* ShooterEnemy.update: the shooter and the enemy_bullets group after the
\* call
ShooterUpdate(sh, dt, target, group) ==
    LET q == ApplyAnim([sh EXCEPT !.facing = FacePlayer(sh, target)], dt)
        w == WeaponUpdate(q.weapon, dt)
        r == IF Abs(CenterX(target) - CenterX(q)) > q.range_px
             THEN [weapon |-> w, bullets |-> group]
             ELSE IF CanShoot(w)
                  THEN WeaponShoot(w, group,
                                   [x |-> CenterX(q) + 16 * q.facing,
                                    y |-> CenterY(q) + 4],
                                   q.facing)
                  ELSE [weapon |-> w, bullets |-> group]
    IN  [shooter |-> [q EXCEPT !.weapon = r.weapon], bullets |-> r.bullets]

\* PickUp.__init__
PickUp(pos) ==
    [x |-> pos.x, y |-> pos.y, w |-> 32, h |-> 32, kind |-> "health",
     anim |-> Animation(8, Ms(200), TRUE)]

HEAL_AMOUNT == 25

\* PickUp.apply
PickUpApply(k, p) ==
    IF k.kind = "health" THEN PlayerHeal(p, HEAL_AMOUNT) ELSE p

\* PickUp.update
PickUpUpdate(k, dt) == [k EXCEPT !.anim = AnimUpdate(@, dt, SpeedDen)]

---------------------------------------------------------------------------
(* The objects as constructed, for the specifications that leave them alone *)

NoCall == [op |-> "init", dt |-> 0, speed |-> 0]

AnimHist0 == [T |-> 0, unit |-> TRUE, fit |-> TRUE, calls |-> 0]

AnimIdle ==
    /\ anim = Animation(1, Ms(100), TRUE)
    /\ animPrev = anim
    /\ animCall = NoCall
    /\ animHist = AnimHist0

WHist0 == [clock |-> 0, shots |-> {}, reqs |-> 0, script |-> 1]

NoWCall == [op |-> "init", dt |-> 0, pos |-> [x |-> 0, y |-> 0],
            direction |-> 0]

WeaponIdle ==
    /\ weapon = Weapon
    /\ bullets = <<>>
    /\ wPrev = [weapon |-> weapon, bullets |-> bullets]
    /\ wCall = NoWCall
    /\ wHist = WHist0

\* what cut_jump may touch: velocity, position, rectangle and jump timers
CutView(p) == [vx |-> p.vx, vy |-> p.vy, px |-> p.px, py |-> p.py,
               x |-> p.x, y |-> p.y, on_ground |-> p.on_ground,
               jump_buffer |-> p.jump_buffer,
               coyote_timer |-> p.coyote_timer]

View0 == [vx |-> 0, vy |-> 0, px |-> 0, py |-> 0, x |-> 0, y |-> 0,
          on_ground |-> FALSE, jump_buffer |-> 0, coyote_timer |-> 0]

\* the last cut_jump call: the player before and after it, the number of
\* calls so far and the updates since the last one
NoCut == [calls |-> 0, pre |-> View0, post |-> View0, age |-> 0]

\* the animations of the player and the one that is active
AnimsOf(p) == [current_anim |-> p.current_anim, anims |-> p.anims]

NoAnims == [current_anim |-> "none", anims |-> <<>>]

\* the jump timers and on_ground of a mover that has none
NoTimers == [jump_buffer |-> 0, coyote_timer |-> 0, on_ground |-> FALSE]

Trace0 == [dt |-> 0, pre |-> Rect(0, 0, 0, 0), afterX |-> Rect(0, 0, 0, 0),
           hitX |-> FALSE, hitY |-> FALSE, rest |-> 0,
           grounded |-> FALSE, jumped |-> FALSE, air |-> 0, preAir |-> 0,
           walked |-> FALSE, preWalk |-> FALSE, fresh |-> FALSE,
           prePx |-> 0, axPx |-> 0, axVx |-> 0,
           preVx |-> 0, preFacing |-> 0, axFacing |-> 0,
           axVy |-> 0, tileY |-> Rect(0, 0, 0, 0),
           preTimers |-> NoTimers, timers |-> NoTimers, endTimers |-> NoTimers,
           preVy |-> 0, cut |-> NoCut, preAnim |-> NoAnims,
           aloft |-> FALSE, preAloft |-> FALSE,
           afterY |-> [rect |-> Rect(0, 0, 0, 0), vy |-> 0, py |-> 0,
                       on_ground |-> FALSE]]

\* what a health call (hCall) records of an entity: alive is the sprite's
\* alive() for an enemy, not is_dead() for the player
PlayerVitals(p) ==
    [health |-> p.health, invuln_time |-> p.invuln_time, alive |-> ~IsDead(p)]

EnemyVitals(e) ==
    [health |-> e.health, invuln_time |-> 0, alive |-> e.alive]

NoVitals == [health |-> 0, invuln_time |-> 0, alive |-> FALSE]

NoHCall == [op |-> "init", on |-> "none", amount |-> 0, full |-> 0,
            before |-> NoVitals, after |-> NoVitals]

\* the log of Game.update: the update, absorb (a projectile), contact
\* (damage dealt to the player) and kill events of the last update in the
\* order they happened, each with the entity's number; gone, the entities
\* killed in the updates before it; shots, the bullets fired so far
\* of the bullet pass of that update: foes, level.enemies as the pass
\* found it; flying, the bullets it ran over; hits, which of them (shot)
\* hit which entity (id); left, the bullets the pass left in their group
Log0 == [events |-> <<>>, gone |-> {}, shots |-> 0,
         foes |-> <<>>, flying |-> <<>>, hits |-> <<>>, left |-> <<>>,
         hurts |-> <<>>, since |-> -1, gap |-> -1,
         before |-> <<>>, dt |-> 0]

\* no level CSV read yet
NoLoad == [op |-> "init", error |-> "none", level |-> <<>>]

LoadIdle ==
    /\ csv = <<>>
    /\ loaded = NoLoad

GameIdle ==
    /\ state = "PLAYING"
    /\ pickups = <<>>
    /\ hCall = NoHCall
    /\ log = Log0
    /\ LoadIdle

MoverIdle ==
    /\ level = "none"
    /\ who = "none"
    /\ player = Player([x |-> 0, y |-> 0])
    /\ enemies = <<>>
    /\ boss = <<>>
    /\ boss_bullets = <<>>
    /\ ticks = 0
    /\ trace = Trace0

---------------------------------------------------------------------------
(* SpecWeapon: one Weapon object under update and shoot calls *)

\* the clock stops at this many milliseconds
MaxWeaponMs == 700

MaxRequests == 5

\* cooldowns: Weapon's 0.15 s, the 0.5 s of the rate limiting scenario,
\* the boss's 0.6 s and the shooter's 0.9 s
Cooldowns == {Ms(150), Ms(500), Ms(600), Ms(900)}

WeaponDts == {DT30, Ms(100)}

\* muzzle points handed to shoot
MuzzlePoints == {[x |-> 48, y |-> 20]}

\* the fire requests of the rate limiting scenario: t = 0, 0.1, 0.4, 0.5, 0.6
ScenarioTimes == <<0, Ms(100), Ms(400), Ms(500), Ms(600)>>

WeaponInit ==
    /\ \E cd \in Cooldowns : weapon = [Weapon EXCEPT !.cooldown = cd]
    /\ bullets = <<>>
    /\ wPrev = [weapon |-> weapon, bullets |-> bullets]
    /\ wCall = NoWCall
    /\ wHist = WHist0

DoWeaponUpdate ==
    \E dt \in WeaponDts :
        /\ wHist.clock + dt <= Ms(MaxWeaponMs)
        /\ weapon' = WeaponUpdate(weapon, dt)
        /\ bullets' = bullets
        /\ wPrev' = [weapon |-> weapon, bullets |-> bullets]
        /\ wCall' = [NoWCall EXCEPT !.op = "update", !.dt = dt]
        /\ wHist' = [wHist EXCEPT !.clock = wHist.clock + dt]

DoShoot ==
    /\ wHist.reqs < MaxRequests
    /\ \E pos \in MuzzlePoints, direction \in {-1, 1} :
          LET r == WeaponShoot(weapon, bullets, pos, direction)
          IN  /\ weapon' = r.weapon
              /\ bullets' = r.bullets
              /\ wPrev' = [weapon |-> weapon, bullets |-> bullets]
              /\ wCall' = [NoWCall EXCEPT !.op = "shoot", !.pos = pos,
                                          !.direction = direction]
              /\ wHist' =
                   [clock  |-> wHist.clock,
                    shots  |-> IF Len(r.bullets) > Len(bullets)
                               THEN wHist.shots \cup {wHist.clock}
                               ELSE wHist.shots,
                    reqs   |-> wHist.reqs + 1,
                    script |-> IF /\ wHist.script \in 1..Len(ScenarioTimes)
                                  /\ ScenarioTimes[wHist.script] = wHist.clock
                               THEN wHist.script + 1 ELSE 0]

WeaponSpecInit == WeaponInit /\ AnimIdle /\ MoverIdle /\ GameIdle

WeaponNext ==
    \/ DoWeaponUpdate /\ UNCHANGED <<animVars, moverVars, gameVars>>
    \/ DoShoot /\ UNCHANGED <<animVars, moverVars, gameVars>>

SpecWeapon == WeaponSpecInit /\ [][WeaponNext]_vars

---------------------------------------------------------------------------
(* SpecAnim: one Animation object under update and reset calls *)

MaxAnimCalls == 8

MaxFrames == 3

\* dt of a call: 1/60 s, 1/30 s, and a one second hitch
AnimDts == {DT60, DT30, Ms(1000)}

\* speed of a call, in halves: -1.0, 0, 1.0, 4.0
AnimSpeeds == {-2, 0, 2, 8}

\* frame_duration passed to the constructor: 0 (clamped to 1 ms), 20 ms,
\* 40 ms and the 0.10 s of the patrol enemy's walk animation
AnimDurations == {0, Ms(20), Ms(40), Ms(100)}

\* the step a call adds to the timer
AnimStep(dt, speed) == (Min(dt, DT30) * Max(0, speed)) \div SpeedDen

AnimInit ==
    /\ \E n \in 1..MaxFrames, fd \in AnimDurations, lp \in BOOLEAN :
          anim = Animation(n, fd, lp)
    /\ animPrev = anim
    /\ animCall = NoCall
    /\ animHist = AnimHist0

DoAnimUpdate ==
    /\ animHist.calls < MaxAnimCalls
    /\ \E dt \in AnimDts, sp \in AnimSpeeds :
          /\ anim' = AnimUpdate(anim, dt, sp)
          /\ animCall' = [op |-> "update", dt |-> dt, speed |-> sp]
          /\ LET unit == animHist.unit /\ sp = SpeedDen /\ dt <= DT30
             IN  animHist' =
                   [T     |-> IF unit THEN animHist.T + dt ELSE 0,
                    unit  |-> unit,
                    fit   |-> animHist.fit
                                /\ AnimStep(dt, sp) <= anim.frame_duration,
                    calls |-> animHist.calls + 1]
    /\ animPrev' = anim

DoAnimReset ==
    /\ animHist.calls < MaxAnimCalls
    /\ anim' = AnimReset(anim)
    /\ animPrev' = anim
    /\ animCall' = [op |-> "reset", dt |-> 0, speed |-> 0]
    /\ animHist' = [AnimHist0 EXCEPT !.calls = animHist.calls + 1]

AnimSpecInit == AnimInit /\ WeaponIdle /\ MoverIdle /\ GameIdle

AnimNext ==
    \/ DoAnimUpdate /\ UNCHANGED <<weaponVars, moverVars, gameVars>>
    \/ DoAnimReset /\ UNCHANGED <<weaponVars, moverVars, gameVars>>

SpecAnim == AnimSpecInit /\ [][AnimNext]_vars

---------------------------------------------------------------------------
(* The tile levels the movers are driven in *)

\* a corridor two tiles high under a ceiling two tiles thick (the player),
\* a floor with a wall on the left (the patrol enemy) and a chamber with the
\* boss marked over its floor
GridCorridor ==
    << <<1, 1, 1, 1, 1, 1, 1, 1, 1, 1, 1, 1>>,
       <<1, 1, 1, 1, 1, 1, 1, 1, 1, 1, 1, 1>>,
       <<1, 0, 0, 0, 0, 1, 0, 0, 0, 0, 0, 1>>,
       <<1, 90, 0, 0, 0, 1, 0, 0, 0, 0, 0, 1>>,
       <<1, 1, 1, 1, 1, 1, 0, 0, 0, 0, 0, 1>>,
       <<1, 0, 0, 0, 0, 0, 0, 0, 0, 0, 0, 1>>,
       <<1, 0, 0, 0, 0, 1, 0, 0, 0, 0, 0, 1>>,
       <<1, 91, 0, 0, 0, 1, 0, 93, 0, 0, 0, 1>>,
       <<1, 1, 1, 1, 1, 1, 1, 1, 1, 1, 1, 1>> >>

\* a room whose floor lies one tile below the spawn markers; tile 4 is drawn
\* but is not solid
GridRoom ==
    << <<2, 2, 2, 2, 2, 2, 2, 2, 2, 2>>,
       <<2, 0, 0, 0, 0, 0, 0, 0, 0, 2>>,
       <<2, 90, 0, 4, 0, 0, 91, 0, 0, 2>>,
       <<2, 0, 0, 0, 0, 0, 0, 0, 0, 2>>,
       <<3, 3, 3, 3, 3, 3, 3, 3, 3, 3>> >>

\* a shaft 48 tiles high: the markers at its top, one row of solid tiles
\* (row 46) near its bottom
GridShaft ==
    [r \in 1..48 |->
        [c \in 1..12 |->
            IF r = 47 THEN 1
            ELSE IF r = 2 /\ c = 2 THEN 90
            ELSE IF r = 2 /\ c = 10 THEN 91
            ELSE IF r = 6 /\ c = 5 THEN 93
            ELSE 0]]

\* a level without a floor: every mover falls out of it
GridChasm ==
    [r \in 1..6 |->
        [c \in 1..10 |->
            IF r = 2 /\ c = 2 THEN 90
            ELSE IF r = 2 /\ c = 5 THEN 91
            ELSE IF r = 2 /\ c = 7 THEN 93
            ELSE 0]]

\* a floor with three pits: the boss's (four tiles wide), the patrol
\* enemy's (two tiles wide) and open ground for the player
GridPits ==
    << <<0, 0, 0, 0, 0, 0, 0, 0, 0, 0, 0, 0, 0, 0>>,
       <<0, 0, 0, 0, 0, 0, 0, 0, 0, 0, 0, 0, 0, 0>>,
       <<1, 0, 0, 0, 0, 1, 0, 0, 0, 0, 0, 0, 0, 0>>,
       <<1, 0, 0, 0, 0, 1, 0, 0, 0, 0, 0, 0, 0, 0>>,
       <<1, 0, 0, 0, 0, 1, 0, 0, 0, 0, 0, 0, 0, 0>>,
       <<1, 0, 0, 0, 0, 1, 0, 0, 0, 0, 0, 0, 0, 0>>,
       <<1, 0, 0, 0, 0, 1, 0, 0, 1, 0, 0, 0, 0, 0>>,
       <<1, 93, 0, 0, 0, 1, 91, 0, 1, 0, 90, 0, 0, 0>>,
       <<1, 1, 1, 1, 1, 1, 1, 1, 1, 1, 1, 1, 1, 1>> >>

\* a ledge: the player is marked with its right half beyond the end of a
\* platform, two tiles above the floor
GridLedge ==
    << <<0, 0, 0, 0, 0, 0, 0, 0, 0, 0>>,
       <<0, 90, 0, 0, 0, 0, 0, 0, 0, 0>>,
       <<1, 1, 0, 0, 0, 0, 0, 0, 0, 0>>,
       <<0, 0, 0, 0, 0, 0, 0, 0, 0, 0>>,
       <<1, 1, 1, 1, 1, 1, 1, 1, 1, 1>> >>

\* a hall 44 tiles wide: the top row free, one solid block in the second
\* row 192 px from the left, a floor
GridHall ==
    [r \in 1..3 |->
        [c \in 1..44 |->
            IF r = 3 THEN 1
            ELSE IF r = 2 /\ c = 13 THEN 2
            ELSE 0]]

\* a ward: the player, two health pickups, a patrol enemy and the boss on
\* one floor
GridWard ==
    << <<1, 1, 1, 1, 1, 1, 1, 1, 1, 1, 1, 1, 1, 1, 1, 1, 1, 1, 1, 1>>,
       <<1, 0, 0, 0, 0, 0, 0, 0, 0, 0, 0, 0, 0, 0, 0, 0, 0, 0, 0, 1>>,
       <<1, 0, 0, 0, 0, 0, 0, 0, 0, 0, 0, 0, 0, 0, 0, 0, 0, 0, 0, 1>>,
       <<1, 0, 0, 0, 0, 0, 0, 0, 0, 0, 0, 0, 0, 0, 0, 0, 0, 0, 0, 1>>,
       <<1, 90, 0, 0, 92, 0, 0, 92, 0, 0, 91, 0, 0, 0, 93, 0, 0, 0, 0, 1>>,
       <<1, 1, 1, 1, 1, 1, 1, 1, 1, 1, 1, 1, 1, 1, 1, 1, 1, 1, 1, 1>> >>

\* two patrol enemies whose rectangles overlap, in front of the player
GridGang ==
    [r \in 1..5 |->
        [c \in 1..16 |->
            IF r = 5 THEN 1
            ELSE IF c \in {1, 16} THEN 1
            ELSE IF r = 4 /\ c = 2 THEN 90
            ELSE IF r = 4 /\ c \in {8, 9} THEN 91
            ELSE 0]]

\* an arena: walls at both ends, a pit three tiles wide in the floor; the
\* player, a health pickup, a patrol enemy next to the player, a second one
\* at the edge of the pit, the boss and the exit flag
GridArena ==
    [r \in 1..5 |->
        [c \in 1..24 |->
            IF r = 5 THEN (IF c \in 12..14 THEN 0 ELSE 1)
            ELSE IF c \in {1, 24} THEN 1
            ELSE IF r = 4 /\ c = 2 THEN 90
            ELSE IF r = 4 /\ c = 5 THEN 92
            ELSE IF r = 4 /\ c \in {6, 15} THEN 91
            ELSE IF r = 4 /\ c = 18 THEN 93
            ELSE IF r = 4 /\ c = 23 THEN 94
            ELSE 0]]

\* a duel: a patrol enemy shut in between two low blocks, the player on
\* one of the blocks with its left half over the enemy, the exit flag next
\* to the player and the boss beyond it, in the line of fire
GridDuel ==
    [r \in 1..6 |->
        [c \in 1..16 |->
            IF r = 6 /\ c = 11 THEN 93
            ELSE IF r = 6 THEN 1
            ELSE IF r = 5 /\ c \in {4, 7} THEN 1
            ELSE IF r = 5 /\ c = 5 THEN 91
            ELSE IF r = 4 /\ c = 6 THEN 90
            ELSE IF r = 4 /\ c = 8 THEN 94
            ELSE 0]]

LevelCorridor == LoadCsv(GridCorridor)

LevelArena == LoadCsv(GridArena)

LevelGang == LoadCsv(GridGang)

LevelDuel == LoadCsv(GridDuel)

LevelWard == LoadCsv(GridWard)

LevelRoom == LoadCsv(GridRoom)

LevelShaft == LoadCsv(GridShaft)

LevelPits == LoadCsv(GridPits)

LevelChasm == LoadCsv(GridChasm)

LevelLedge == LoadCsv(GridLedge)

LevelHall == LoadCsv(GridHall)

\* the loaded level of a name
LevelOf(name) ==
    CASE name = "corridor" -> LevelCorridor
      [] name = "room"     -> LevelRoom
      [] name = "shaft"    -> LevelShaft
      [] name = "pits"     -> LevelPits
      [] name = "chasm"    -> LevelChasm
      [] name = "ledge"    -> LevelLedge
      [] name = "hall"     -> LevelHall
      [] name = "ward"     -> LevelWard
      [] name = "arena"    -> LevelArena
      [] name = "gang"     -> LevelGang
      [] name = "duel"     -> LevelDuel
      [] OTHER             -> LoadCsv(<<>>)

---------------------------------------------------------------------------
(* The movers under update ticks *)

\* ticks of the player in SpecMover
MaxPlayerTicks == 4

\* ticks of the patrol enemy and of the boss in SpecMover
MaxEnemyTicks == 8

\* ticks of a fall in SpecFall
MaxFallTicks == 60

\* ticks of the walk off the ledge in SpecLedge
MaxLedgeTicks == 16

\* updates of the shooter in a run of SpecShooter
MaxShooterTicks == 30

\* ticks in a run of SpecSelect
MaxSelectTicks == 5

\* ticks and releases of the jump key in a run of SpecJump
MaxJumpTicks == 12

MaxCuts == 2

\* ticks at rest in SpecRest
MaxRestTicks == 1000

\* ticks a mover of SpecRest is given to land before it rests
SettleTicks == 20

\* dt of a tick: clock.tick(60) at full rate, and the clamp min(dt, 1/30)
MoverDts == {DT60, DT30}

NoKeys == [a |-> FALSE, d |-> FALSE]

\* pygame.key.get_pressed(): neither, K_a, K_d
KeySets == {NoKeys, [a |-> TRUE, d |-> FALSE], [a |-> FALSE, d |-> TRUE]}

\* pygame.key.get_pressed(): every combination of K_a and K_d
AllKeys == [a : BOOLEAN, d : BOOLEAN]

\* the movers of kind `who`
Movers ==
    IF who = "player" THEN <<player>>
    ELSE IF who = "enemy" THEN enemies
    ELSE IF who = "boss" THEN boss
    ELSE <<>>

\* the rectangle's bottom lies on the top of a solid tile, and vel.y is 0
Resting(e, L) ==
    /\ e.vy = 0
    /\ \E i \in DOMAIN L.solid_rects :
          LET t == L.solid_rects[i]
          IN  /\ t.y = e.y + e.h
              /\ t.x < e.x + e.w
              /\ e.x < t.x + t.w

\* the update has the mover on a solid tile again: its vertical step landed
\* it (my, the mover after that step), or its ground probe found it (g, the
\* mover after the probe) not ascending, with its bottom on a tile's top
Landed(my, g, L) ==
    \/ my.on_ground
    \/ /\ g.on_ground
       /\ g.vy >= 0
       /\ \E i \in DOMAIN L.solid_rects :
             LET t == L.solid_rects[i]
             IN  /\ t.y = g.y + g.h
                 /\ t.x < g.x + g.w
                 /\ g.x < t.x + t.w

\* the record of a tick: pre is the mover when its update began, mx its
\* rectangle moved along x, ax the mover after the horizontal step, g the
\* mover after the ground probe, jumped whether the buffered jump ran,
\* fresh whether queue_jump was called since the update before, aloft
\* whether a jump has run and no update since has the mover on a tile again
\* (preAloft: the same at the moment the buffered jump is tested)
\* what the vertical step left: the rectangle, vel.y, pos.y and on_ground
YStepOf(e) == [rect |-> RectOf(e), vy |-> e.vy, py |-> e.py,
               on_ground |-> e.on_ground]

\* the first rectangle of a list of hits, the empty rectangle if none
FirstHit(hits) == IF Len(hits) > 0 THEN hits[1] ELSE Rect(0, 0, 0, 0)

TraceOf(pre, mx, ax, g, jumped, fresh, dt, L) ==
    [dt     |-> dt,
     grounded |-> g.on_ground,
     jumped   |-> jumped,
     air      |-> IF g.on_ground THEN 0 ELSE trace.air + dt,
     preAir   |-> trace.air,
     walked   |-> IF jumped THEN FALSE
                  ELSE IF g.on_ground THEN TRUE
                  ELSE trace.walked,
     preWalk  |-> trace.walked /\ ~trace.grounded,
     fresh    |-> fresh,
     pre    |-> RectOf(pre),
     afterX |-> RectOf(ax),
     prePx  |-> pre.px,
     axPx   |-> ax.px,
     axVx   |-> ax.vx,
     preVx  |-> pre.vx,
     preFacing |-> pre.facing,
     axFacing  |-> ax.facing,
     axVy   |-> ax.vy,
     preVy  |-> pre.vy,
     preAnim |-> NoAnims,
     aloft    |-> IF jumped THEN TRUE
                  ELSE IF Landed(MoveY(ax, dt, L), g, L) THEN FALSE
                  ELSE trace.aloft,
     preAloft |-> trace.aloft /\ ~Landed(MoveY(ax, dt, L), g, L),
     cut    |-> [trace.cut EXCEPT !.age = IF trace.cut.calls > 0
                                         THEN @ + 1 ELSE @],
     preTimers |-> NoTimers,
     timers    |-> NoTimers,
     endTimers |-> NoTimers,
     afterY |-> YStepOf(MoveY(ax, dt, L)),
     tileY  |-> FirstHit(GetSolidHits(L, MovedY(ax, dt))),
     hitX   |-> RectCollidesSolid(L, mx),
     hitY   |-> RectCollidesSolid(L, MovedY(ax, dt)),
     rest   |-> IF ax.x = pre.x /\ (trace.rest > 0 \/ Resting(pre, L))
                THEN trace.rest + 1
                ELSE 0]

\* Game.load_level: the level loaded and its objects constructed
MoverInit(names) ==
    /\ \E n \in names, w \in {"player", "enemy", "boss"} :
          /\ level = n
          /\ who = w
    /\ player = Player(LevelOf(level).player_spawn)
    /\ enemies = [i \in DOMAIN LevelOf(level).enemies |->
                     NormalEnemy(LevelOf(level).enemies[i])]
    /\ boss = [i \in DOMAIN LevelOf(level).boss |->
                  BossEnemy(LevelOf(level).boss[i])]
    /\ Len(Movers) > 0
    /\ boss_bullets = <<>>
    /\ ticks = 0
    /\ trace = Trace0

\* Game.update: player.handle_input(keys); player.update(dt, level)
\* the jump timers and on_ground of the player
TimersOf(p) == [jump_buffer |-> p.jump_buffer,
                coyote_timer |-> p.coyote_timer,
                on_ground |-> p.on_ground]

PlayerTick(dts, keysets, max) ==
    /\ who = "player"
    /\ ticks < max
    /\ \E dt \in dts, keys \in keysets :
          LET L == LevelOf(level)
              p == HandleInput(player, keys)
              g == GroundProbe(PlayerAfterY(p, dt, L), L)
          IN  /\ player' = PlayerUpdate(p, dt, L)
              /\ trace' = [TraceOf(p, MovedX(p, dt), PlayerAfterX(p, dt, L),
                                   g,
                                   g.jump_buffer > 0
                                       /\ PlayerJump(g).jump_buffer = 0,
                                   p.jump_buffer = JUMP_BUFFER_TIME,
                                   dt, L)
                               EXCEPT !.preAnim = AnimsOf(p),
                                      !.preTimers = TimersOf(p),
                                      !.timers = TimersOf(PlayerTimers(p, dt)),
                                      !.endTimers =
                                          TimersOf(PlayerUpdate(p, dt, L))]
    /\ ticks' = ticks + 1
    /\ UNCHANGED <<level, who, enemies, boss, boss_bullets>>

\* Game.handle_events, KEYDOWN K_w: player.queue_jump()
PressJump ==
    /\ who = "player"
    /\ player.jump_buffer < JUMP_BUFFER_TIME
    /\ player' = QueueJump(player)
    /\ UNCHANGED <<level, who, enemies, boss, boss_bullets, ticks, trace>>

\* Game.handle_events, KEYUP K_w: player.cut_jump().  The model takes the
\* calls whose product vel.y * 0.45 is a whole number of its velocity units
ReleaseJump ==
    /\ who = "player"
    /\ trace.cut.calls < MaxCuts
    /\ (45 * player.vy) % 100 = 0
    /\ player' = CutJump(player)
    /\ trace' = [trace EXCEPT !.cut = [calls |-> @.calls + 1,
                                       pre |-> CutView(player),
                                       post |-> CutView(CutJump(player)),
                                       age |-> 0]]
    /\ UNCHANGED <<level, who, enemies, boss, boss_bullets, ticks>>

\* Level.update: for e in list(self.enemies): e.update(dt, self, player);
\* a killed enemy leaves the group
EnemiesTick(dts, max) ==
    /\ who = "enemy"
    /\ ticks < max
    /\ Len(enemies) > 0
    /\ \E dt \in dts :
          LET L == LevelOf(level)
              updated == [i \in DOMAIN enemies |->
                             NormalEnemyUpdate(enemies[i], dt, L, player)]
          IN  /\ enemies' = SelectSeq(updated, LAMBDA e : e.alive)
              /\ trace' = TraceOf(enemies[1], MovedX(enemies[1], dt),
                                  EnemyAfterX(enemies[1], dt, L),
                                  updated[1], FALSE, FALSE, dt, L)
    /\ ticks' = ticks + 1
    /\ UNCHANGED <<level, who, player, boss, boss_bullets>>

\* BossEnemy.update(dt, level, player, boss_bullets), called on the boss
\* itself: Level.update makes the call only while boss.alive()
BossTick(dts, max) ==
    /\ who = "boss"
    /\ ticks < max
    /\ Len(boss) > 0
    /\ \E dt \in dts :
          LET L == LevelOf(level)
              r == BossUpdate(boss[1], dt, L, player, boss_bullets)
          IN  /\ boss' = <<r.boss>>
              /\ boss_bullets' = r.boss_bullets
              /\ trace' = TraceOf(boss[1],
                                  MovedX(BossChase(boss[1], player), dt),
                                  BossAfterX(boss[1], dt, L, player),
                                  r.boss, FALSE, FALSE, dt, L)
    /\ ticks' = ticks + 1
    /\ UNCHANGED <<level, who, player, enemies>>

---------------------------------------------------------------------------
(* SpecMover: one kind of mover under ticks of 1/60 s and 1/30 s, the      *)
(* player with the move keys and the jump key                                   *)

MoverSpecInit ==
    MoverInit({"corridor", "room"}) /\ AnimIdle /\ WeaponIdle /\ GameIdle

MoverPlayerTick ==
    /\ PlayerTick(MoverDts, KeySets, MaxPlayerTicks)
    /\ UNCHANGED <<animVars, weaponVars, gameVars>>

MoverPressJump == PressJump /\ UNCHANGED <<animVars, weaponVars, gameVars>>

MoverEnemiesTick ==
    /\ EnemiesTick(MoverDts, MaxEnemyTicks)
    /\ UNCHANGED <<animVars, weaponVars, gameVars>>

MoverBossTick ==
    /\ BossTick(MoverDts, MaxEnemyTicks)
    /\ UNCHANGED <<animVars, weaponVars, gameVars>>

MoverNext ==
    \/ MoverPlayerTick
    \/ MoverPressJump
    \/ MoverEnemiesTick
    \/ MoverBossTick

SpecMover == MoverSpecInit /\ [][MoverNext]_vars

---------------------------------------------------------------------------
(* SpecFall: a mover falling down the shaft, or out of the level without   *)
(* a floor, at a steady frame rate, no keys held                           *)

FallSpecInit ==
    MoverInit({"shaft", "chasm"}) /\ AnimIdle /\ WeaponIdle /\ GameIdle

\* the frame rate is steady: every tick has the dt of the first
SteadyDts == IF ticks = 0 THEN MoverDts ELSE {trace.dt}

FallPlayerTick ==
    /\ PlayerTick(SteadyDts, {NoKeys}, MaxFallTicks)
    /\ UNCHANGED <<animVars, weaponVars, gameVars>>

FallEnemiesTick ==
    /\ EnemiesTick(SteadyDts, MaxFallTicks)
    /\ UNCHANGED <<animVars, weaponVars, gameVars>>

FallBossTick ==
    /\ BossTick(SteadyDts, MaxFallTicks)
    /\ UNCHANGED <<animVars, weaponVars, gameVars>>

FallNext ==
    \/ FallPlayerTick
    \/ FallEnemiesTick
    \/ FallBossTick

SpecFall == FallSpecInit /\ [][FallNext]_vars

---------------------------------------------------------------------------
(* SpecRest: a mover left alone on the floor under ticks of 1/60 s         *)

RestSpecInit ==
    MoverInit({"pits"}) /\ AnimIdle /\ WeaponIdle /\ GameIdle

RestPlayerTick ==
    /\ trace.rest < MaxRestTicks
    /\ PlayerTick({DT60}, {NoKeys}, MaxRestTicks + SettleTicks)
    /\ UNCHANGED <<animVars, weaponVars, gameVars>>

RestEnemiesTick ==
    /\ trace.rest < MaxRestTicks
    /\ EnemiesTick({DT60}, MaxRestTicks + SettleTicks)
    /\ UNCHANGED <<animVars, weaponVars, gameVars>>

RestBossTick ==
    /\ trace.rest < MaxRestTicks
    /\ BossTick({DT60}, MaxRestTicks + SettleTicks)
    /\ UNCHANGED <<animVars, weaponVars, gameVars>>

RestNext ==
    \/ RestPlayerTick
    \/ RestEnemiesTick
    \/ RestBossTick

SpecRest == RestSpecInit /\ [][RestNext]_vars

---------------------------------------------------------------------------
(* SpecJump: the player on the ledge under the open sky, no direction key  *)
(* held, the jump key pressed and released at any time, at a steady frame  *)
(* rate                                                                    *)

JumpSpecInit ==
    /\ MoverInit({"ledge"})
    /\ who = "player"
    /\ AnimIdle
    /\ WeaponIdle
    /\ GameIdle

JumpPlayerTick ==
    /\ PlayerTick(SteadyDts, {NoKeys}, MaxJumpTicks)
    /\ UNCHANGED <<animVars, weaponVars, gameVars>>

JumpPressJump == PressJump /\ UNCHANGED <<animVars, weaponVars, gameVars>>

JumpReleaseJump ==
    ReleaseJump /\ UNCHANGED <<animVars, weaponVars, gameVars>>

JumpNext ==
    \/ JumpPlayerTick
    \/ JumpPressJump
    \/ JumpReleaseJump

SpecJump == JumpSpecInit /\ [][JumpNext]_vars

---------------------------------------------------------------------------
(* SpecSelect: the player on the floor of the corridor, any combination    *)
(* of K_a and K_d held in each frame of 1/30 s, the jump key pressed at    *)
(* any time                                                                *)

SelectSpecInit ==
    /\ MoverInit({"corridor"})
    /\ who = "player"
    /\ AnimIdle
    /\ WeaponIdle
    /\ GameIdle

SelectPlayerTick ==
    /\ PlayerTick({DT30}, AllKeys, MaxSelectTicks)
    /\ UNCHANGED <<animVars, weaponVars, gameVars>>

SelectPressJump == PressJump /\ UNCHANGED <<animVars, weaponVars, gameVars>>

SelectNext ==
    \/ SelectPlayerTick
    \/ SelectPressJump

SpecSelect == SelectSpecInit /\ [][SelectNext]_vars

---------------------------------------------------------------------------
(* SpecShooter: one ShooterEnemy and an enemy_bullets group; the player    *)
(* stands anywhere along its line in each frame                            *)

\* the shooter's topleft: its centre is at x = 616
ShooterPos == [x |-> 600, y |-> 0]

\* rect.x of the player (centre 16 further): at the shooter, exactly at
\* range on either side, one pixel beyond it, and well within it
PlayerXs == {600, 80, 79, 1120, 1121, 400}

ShooterSpecInit ==
    /\ level = "none"
    /\ who = "shooter"
    /\ \E px \in PlayerXs : player = Player([x |-> px, y |-> 0])
    /\ enemies = <<ShooterEnemy(ShooterPos)>>
    /\ boss = <<>>
    /\ boss_bullets = <<>>
    /\ ticks = 0
    /\ trace = Trace0
    /\ AnimIdle
    /\ weapon = Weapon
    /\ bullets = <<>>
    /\ wPrev = [weapon |-> enemies[1].weapon, bullets |-> boss_bullets]
    /\ wCall = NoWCall
    /\ wHist = WHist0
    /\ GameIdle

\* the player is somewhere else
ShooterPlayerMoves ==
    /\ \E px \in PlayerXs \ {player.x} :
          player' = Player([x |-> px, y |-> 0])
    /\ UNCHANGED <<level, who, enemies, boss, boss_bullets, ticks, trace,
                   animVars, weaponVars, gameVars>>

\* shooter.update(dt, level, player, enemy_bullets)
ShooterTick ==
    /\ ticks < MaxShooterTicks
    /\ \E dt \in {DT30} :
          LET r == ShooterUpdate(enemies[1], dt, player, boss_bullets)
          IN  /\ enemies' = <<r.shooter>>
              /\ boss_bullets' = r.bullets
              /\ wCall' = [op |-> "shooter", dt |-> dt,
                           pos |-> [x |-> CenterX(player),
                                    y |-> CenterY(player)],
                           direction |-> r.shooter.facing]
    /\ wPrev' = [weapon |-> enemies[1].weapon, bullets |-> boss_bullets]
    /\ ticks' = ticks + 1
    /\ UNCHANGED <<level, who, player, boss, trace, weapon, bullets, wHist,
                   animVars, gameVars>>

ShooterNext ==
    \/ ShooterPlayerMoves
    \/ ShooterTick

SpecShooter == ShooterSpecInit /\ [][ShooterNext]_vars

---------------------------------------------------------------------------
(* SpecLedge: the player walks off a ledge with K_d held, the jump key      *)
(* pressed at any time; frames of 17 ms, any of them followed by a frame   *)
(* clamped to 1/30 s                                                       *)

\* clock.tick(60) returns whole milliseconds; a frame above 33 ms is
\* clamped to 1/30 s, and the frame after it is an ordinary one
LedgeDts == IF trace.dt = DT30 THEN {Ms(17)} ELSE {Ms(17), DT30}

LedgeSpecInit ==
    /\ MoverInit({"ledge"})
    /\ who = "player"
    /\ AnimIdle
    /\ WeaponIdle
    /\ GameIdle

LedgePlayerTick ==
    /\ PlayerTick(LedgeDts, {[a |-> FALSE, d |-> TRUE]}, MaxLedgeTicks)
    /\ UNCHANGED <<animVars, weaponVars, gameVars>>

LedgePressJump == PressJump /\ UNCHANGED <<animVars, weaponVars, gameVars>>

LedgeNext ==
    \/ LedgePlayerTick
    \/ LedgePressJump

SpecLedge == LedgeSpecInit /\ [][LedgeNext]_vars

---------------------------------------------------------------------------
(* SpecBullet: one projectile in the hall under Game.update's bullet pass  *)

\* frames of 1/60 s, of 17 ms, and clamped to 1/30 s
BulletDts == {DT60, Ms(17), DT30}

\* muzzle points: in the free top row, and in the row of the block
BulletStarts == {[x |-> 21, y |-> 6], [x |-> 21, y |-> 22]}

BulletSpecInit ==
    /\ \E pos \in BulletStarts, direction \in {-1, 1} :
          bullets = <<Bullet(pos, direction)>>
    /\ weapon = Weapon
    /\ wPrev = [weapon |-> weapon, bullets |-> bullets]
    /\ wCall = NoWCall
    /\ wHist = WHist0
    /\ level = "hall"
    /\ who = "none"
    /\ player = Player(LevelOf(level).player_spawn)
    /\ enemies = <<>>
    /\ boss = <<>>
    /\ boss_bullets = <<>>
    /\ ticks = 0
    /\ trace = Trace0
    /\ AnimIdle
    /\ GameIdle

\* Game.update: for b in list(self.bullets): b.update(dt, self.level)
BulletsTick ==
    /\ Len(bullets) > 0
    /\ \E dt \in BulletDts :
          /\ bullets' = BulletsUpdate(bullets, dt, LevelOf(level))
          /\ wCall' = [NoWCall EXCEPT !.op = "tick", !.dt = dt]
          /\ wHist' = [wHist EXCEPT !.clock = wHist.clock + dt]
    /\ wPrev' = [weapon |-> weapon, bullets |-> bullets]
    /\ UNCHANGED <<weapon, animVars, moverVars, gameVars>>

BulletNext == BulletsTick

SpecBullet == BulletSpecInit /\ [][BulletNext]_vars

---------------------------------------------------------------------------
(* SpecHealth: one entity of the ward under take_damage calls; the player   *)
(* also under heal calls, health pickups and update ticks of 1/30 s, which  *)
(* run the invulnerability timer down                                       *)

MaxHealthTicks == 20

\* the amounts of the program (ENEMY_DAMAGE 10, the bullet's 12 and 15,
\* BOSS_DAMAGE 15, the pickup's 25), none, and one above every enemy's health
Amounts == {0, 10, 12, 15, 25, 40}

\* the amounts tried on the player: none, ENEMY_DAMAGE, BOSS_DAMAGE, and one
\* above what is left after a few hits
PlayerDamages == {0, 10, 15, 40}

\* the amounts healed: none, a small one, the pickup's
PlayerHeals == {0, 10, 25}

HealthCall(op, amount, full, before, after) ==
    [op |-> op, on |-> who, amount |-> amount, full |-> full,
     before |-> before, after |-> after]

\* Game.load_level for the ward; for "shooter" the group holds one
\* ShooterEnemy in the patrol enemy's place
HealthSpecInit ==
    /\ level = "ward"
    /\ who \in {"player", "enemy", "shooter", "boss"}
    /\ player = Player(LevelOf(level).player_spawn)
    /\ enemies = [i \in DOMAIN LevelOf(level).enemies |->
                     IF who = "shooter"
                     THEN ShooterEnemy(LevelOf(level).enemies[i])
                     ELSE NormalEnemy(LevelOf(level).enemies[i])]
    /\ boss = [i \in DOMAIN LevelOf(level).boss |->
                  BossEnemy(LevelOf(level).boss[i])]
    /\ pickups = [i \in DOMAIN LevelOf(level).pickups |->
                     PickUp(LevelOf(level).pickups[i])]
    /\ boss_bullets = <<>>
    /\ ticks = 0
    /\ trace = Trace0
    /\ state = "PLAYING"
    /\ hCall = NoHCall
    /\ log = Log0
    /\ AnimIdle
    /\ WeaponIdle
    /\ LoadIdle

\* player.take_damage(amount)
DoPlayerDamage ==
    /\ who = "player"
    /\ \E amount \in PlayerDamages :
          /\ player' = PlayerTakeDamage(player, amount)
          /\ hCall' = HealthCall("take_damage", amount, player.max_health,
                                 PlayerVitals(player), PlayerVitals(player'))
    /\ UNCHANGED <<level, who, enemies, boss, boss_bullets, ticks, trace,
                   state, pickups, log, animVars, weaponVars,
                   loadVars>>

\* player.heal(amount)
DoPlayerHeal ==
    /\ who = "player"
    /\ \E amount \in PlayerHeals :
          /\ player' = PlayerHeal(player, amount)
          /\ hCall' = HealthCall("heal", amount, player.max_health,
                                 PlayerVitals(player), PlayerVitals(player'))
    /\ UNCHANGED <<level, who, enemies, boss, boss_bullets, ticks, trace,
                   state, pickups, log, animVars, weaponVars,
                   loadVars>>

\* Game.update: a pickup the player collides with is taken out of the
\* group (dokill=True) and applied
DoPickUp ==
    /\ who = "player"
    /\ Len(pickups) > 0
    /\ player' = PickUpApply(pickups[1], player)
    /\ pickups' = Tail(pickups)
    /\ hCall' = HealthCall("pickup", HEAL_AMOUNT, player.max_health,
                           PlayerVitals(player), PlayerVitals(player'))
    /\ UNCHANGED <<level, who, enemies, boss, boss_bullets, ticks, trace,
                   state, log, animVars, weaponVars,
                   loadVars>>

\* player.update(dt, level), no key held
HealthPlayerTick ==
    /\ PlayerTick({DT30}, {NoKeys}, MaxHealthTicks)
    /\ hCall' = HealthCall("update", 0, player.max_health,
                           PlayerVitals(player), PlayerVitals(player'))
    /\ UNCHANGED <<state, pickups, log, animVars, weaponVars,
                   loadVars>>

\* take_damage(amount) on the one member of level.enemies; a killed enemy
\* has left the group
DoEnemyDamage ==
    /\ who \in {"enemy", "shooter"}
    /\ Len(enemies) > 0
    /\ \E amount \in Amounts :
          LET e == EnemyTakeDamage(enemies[1], amount)
          IN  /\ enemies' = SelectSeq(<<e>> \o Tail(enemies),
                                      LAMBDA m : m.alive)
              /\ hCall' = HealthCall("take_damage", amount,
                                     IF who = "shooter"
                                     THEN ShooterEnemy([x |-> 0, y |-> 0]).health
                                     ELSE NormalEnemy([x |-> 0, y |-> 0]).health,
                                     EnemyVitals(enemies[1]), EnemyVitals(e))
    /\ UNCHANGED <<level, who, player, boss, boss_bullets, ticks, trace,
                   state, pickups, log, animVars, weaponVars,
                   loadVars>>

\* level.boss.take_damage(amount), for as long as the boss has health left
DoBossDamage ==
    /\ who = "boss"
    /\ Len(boss) > 0
    /\ boss[1].health > 0
    /\ \E amount \in Amounts :
          LET b == EnemyTakeDamage(boss[1], amount)
          IN  /\ boss' = <<b>>
              /\ hCall' = HealthCall("take_damage", amount, boss[1].max_health,
                                     EnemyVitals(boss[1]), EnemyVitals(b))
    /\ UNCHANGED <<level, who, player, enemies, boss_bullets, ticks, trace,
                   state, pickups, log, animVars, weaponVars,
                   loadVars>>

HealthNext ==
    \/ DoPlayerDamage
    \/ DoPlayerHeal
    \/ DoPickUp
    \/ HealthPlayerTick
    \/ DoEnemyDamage
    \/ DoBossDamage

SpecHealth == HealthSpecInit /\ [][HealthNext]_vars

---------------------------------------------------------------------------
(* level.py Level.update and game.py Game.update.  The camera, which only  *)
(* the drawing reads, is left out.                                         *)

ENEMY_DAMAGE == 10

BOSS_DAMAGE == 15

\* Level.update: hit_enemy.take_damage(15)
BULLET_DAMAGE == 15

\* Level.update: self.boss.take_damage(12)
BULLET_DAMAGE_BOSS == 12

Event(ev, id) == [ev |-> ev, id |-> id]

\* the boss's number in the log; the enemies are numbered from 1 in the
\* order load_csv adds them to level.enemies
BossId == 0

\* a sprite with its number
WithId(e, i) ==
    [f \in DOMAIN e \cup {"id"} |-> IF f = "id" THEN i ELSE e[f]]

RECURSIVE Flatten(_)
Flatten(ss) == IF ss = <<>> THEN <<>> ELSE Head(ss) \o Flatten(Tail(ss))

\* the first member of a group that collides with a rectangle, 0 for none
\* (pygame.sprite.spritecollideany)
SpriteCollideAny(rect, group) ==
    LET hits == {k \in DOMAIN group : Collide(rect, RectOf(group[k]))}
    IN  IF hits = {} THEN 0 ELSE CHOOSE k \in hits : \A j \in hits : k <= j

\* mutant: kill() leaves the sprite in its groups
MembersAll(group) == group

\* a group after kill() calls on some of its sprites
Members(group) == SelectSeq(group, LAMBDA m : m.alive)

\* Player.try_shoot
TryShoot(p, group) ==
    LET r == WeaponShoot(p.weapon, group,
                         [x |-> CenterX(p) + 16 * p.facing,
                          y |-> CenterY(p) + 4],
                         p.facing)
    IN  [player |-> [p EXCEPT !.weapon = r.weapon], bullets |-> r.bullets]

\* Level.update: for e in list(self.enemies): e.update(dt, self, player)
EnemiesPass(group, dt, L, target) ==
    LET upd == [i \in DOMAIN group |->
                   NormalEnemyUpdate(group[i], dt, L, target)]
    IN  [enemies |-> Members(upd),
         events  |-> Flatten([i \in DOMAIN group |->
                        <<Event("update", group[i].id)>> \o
                        (IF group[i].alive /\ ~upd[i].alive
                         THEN <<Event("kill", group[i].id)>> ELSE <<>>)])]

\* Level.update: if self.boss and self.boss.alive(): self.boss.update(...)
BossPass(bs, bbs, dt, L, target) ==
    IF Len(bs) > 0 /\ bs[1].alive
    THEN LET r == BossUpdate(bs[1], dt, L, target, bbs)
         IN  [boss |-> <<r.boss>>, boss_bullets |-> r.boss_bullets,
              events |-> <<Event("update", BossId)>>]
    ELSE [boss |-> bs, boss_bullets |-> bbs, events |-> <<>>]

\* mutant: the bullet that hits an enemy stays in its group
BulletHitPierce(b, i, acc) ==
    LET k == SpriteCollideAny(RectOf(b), acc.enemies)
    IN  IF k = 0 THEN [acc EXCEPT !.bullets = Append(@, b)]
        ELSE [acc EXCEPT
                !.enemies = Members([@ EXCEPT ![k] =
                                EnemyTakeDamage(@, BULLET_DAMAGE)]),
                !.bullets = Append(@, b),
                !.hits = Append(@, [shot |-> i, id |-> acc.enemies[k].id])]

\* Level.update, "Bullet hits", the body of the loop for bullet b, the i-th
\* of list(bullets).  acc holds the enemies group, the boss, the bullets
\* left in their group, the events so far and, in hits, which bullet hit
\* whom.
BulletHit(b, i, acc) ==
    LET k == SpriteCollideAny(RectOf(b), acc.enemies)
    IN  IF k > 0
        THEN LET e == EnemyTakeDamage(acc.enemies[k], BULLET_DAMAGE)
             IN  [acc EXCEPT
                    !.enemies = Members([@ EXCEPT ![k] = e]),
                    !.hits = Append(@, [shot |-> i, id |-> e.id]),
                    !.events = @ \o <<Event("absorb", e.id)>> \o
                        (IF acc.enemies[k].alive /\ ~e.alive
                         THEN <<Event("kill", e.id)>> ELSE <<>>)]
        ELSE IF /\ Len(acc.boss) > 0
                /\ acc.boss[1].alive
                /\ Collide(RectOf(b), RectOf(acc.boss[1]))
        THEN [acc EXCEPT
                !.boss = <<EnemyTakeDamage(acc.boss[1], BULLET_DAMAGE_BOSS)>>,
                !.hits = Append(@, [shot |-> i, id |-> BossId]),
                !.events = @ \o <<Event("absorb", BossId)>>]
        ELSE [acc EXCEPT !.bullets = Append(@, b)]

\* for b in list(bullets), from bullet i on
RECURSIVE BulletHits(_, _, _)
BulletHits(shots, i, acc) ==
    IF i > Len(shots) THEN acc
    ELSE BulletHits(shots, i + 1, BulletHit(shots[i], i, acc))

\* Level.update: the pickups' update, and what the passes leave
LevelUpdated(h, picks, dt) ==
    [enemies      |-> h.enemies,
     boss         |-> h.boss,
     boss_bullets |-> h.boss_bullets,
     pickups      |-> [i \in DOMAIN picks |-> PickUpUpdate(picks[i], dt)],
     bullets      |-> h.bullets,
     events       |-> h.events,
     foes         |-> h.foes,
     flying       |-> h.flying,
     hits         |-> h.hits]

\* what the bullet pass starts from: the groups as the enemies' and the
\* boss's updates left them (kept in foes), the bullets it runs over (flying)
AfterUpdates(ep, bp, shots) ==
    [enemies |-> ep.enemies, boss |-> bp.boss,
     boss_bullets |-> bp.boss_bullets, bullets |-> <<>>,
     events |-> ep.events \o bp.events,
     foes |-> ep.enemies, flying |-> shots, hits |-> <<>>]

\* Level.update
LevelUpdate(foes, bs, picks, shots, bbs, dt, L, target) ==
    LevelUpdated(BulletHits(shots, 1,
                            AfterUpdates(EnemiesPass(foes, dt, L, target),
                                         BossPass(bs, bbs, dt, L, target),
                                         shots)),
                 picks, dt)

\* for p in hit_pickups: p.apply(self.player)
RECURSIVE ApplyPickUps(_, _)
ApplyPickUps(hit, p) ==
    IF hit = <<>> THEN p
    ELSE ApplyPickUps(Tail(hit), PickUpApply(Head(hit), p))

\* Game.update, "Player vs pickups": g is the game after level.update
\* returned, [player, enemies, boss, bullets, boss_bullets, pickups, state,
\* events]
PlayerVsPickups(g) ==
    [g EXCEPT
        !.player = ApplyPickUps(
                       SelectSeq(g.pickups,
                           LAMBDA k : Collide(RectOf(g.player), RectOf(k))),
                       g.player),
        !.pickups = SelectSeq(g.pickups,
                        LAMBDA k : ~Collide(RectOf(g.player), RectOf(k)))]

\* what a take_damage(amount) call takes off the health of player p: one
\* entry when the health drops, none when the call is ignored
Hurts(p, amount) ==
    IF PlayerTakeDamage(p, amount).health < p.health
    THEN <<p.health - PlayerTakeDamage(p, amount).health>>
    ELSE <<>>

\* Game.update, "Player vs enemies contact damage", foe the enemy found by
\* spritecollideany
EnemyContact(g, foe) ==
    IF foe = 0 THEN g
    ELSE [g EXCEPT
            !.player = PlayerTakeDamage(@, ENEMY_DAMAGE),
            !.hurts = @ \o Hurts(g.player, ENEMY_DAMAGE),
            !.events = @ \o <<Event("contact", g.enemies[foe].id)>>]

PlayerVsEnemies(g) ==
    EnemyContact(g, SpriteCollideAny(RectOf(g.player), g.enemies))

\* Game.update, "Player vs boss contact damage"
PlayerVsBoss(g) ==
    IF /\ Len(g.boss) > 0
       /\ g.boss[1].alive
       /\ Collide(RectOf(g.player), RectOf(g.boss[1]))
    THEN [g EXCEPT
            !.player = PlayerTakeDamage(@, BOSS_DAMAGE),
            !.hurts = @ \o Hurts(g.player, BOSS_DAMAGE),
            !.events = @ \o <<Event("contact", BossId)>>]
    ELSE g

\* Game.update, "Player vs boss bullets": the bullets that hit are killed
PlayerVsBossBullets(g) ==
    IF SpriteCollideAny(RectOf(g.player), g.boss_bullets) > 0
    THEN [g EXCEPT
            !.boss_bullets =
                SelectSeq(@, LAMBDA b : ~Collide(RectOf(b), RectOf(g.player))),
            !.player = PlayerTakeDamage(@, BOSS_DAMAGE),
            !.hurts = @ \o Hurts(g.player, BOSS_DAMAGE)]
    ELSE g

\* Game.update, "Game over"
GameOver(g) ==
    IF IsDead(g.player) THEN [g EXCEPT !.state = "GAME_OVER"] ELSE g

\* Game.update, "Level complete"
LevelComplete(g, L) ==
    IF /\ Len(g.boss) = 0 \/ ~g.boss[1].alive
       /\ Len(L.exit_rect) > 0
       /\ Collide(RectOf(g.player), L.exit_rect[1])
    THEN [g EXCEPT !.state = "LEVEL_COMPLETE"]
    ELSE g

\* the game as level.update leaves it
AfterLevel(p, lu, st) ==
    [player |-> p, enemies |-> lu.enemies, boss |-> lu.boss,
     bullets |-> lu.bullets, boss_bullets |-> lu.boss_bullets,
     pickups |-> lu.pickups, state |-> st, events |-> lu.events,
     foes |-> lu.foes, flying |-> lu.flying, hits |-> lu.hits,
     hurts |-> <<>>]

\* Game.update from level.update on, p the player after player.update
GameAfterPlayer(p, foes, bs, picks, shots, bbs, st, dt, L) ==
    LevelComplete(
        GameOver(
            PlayerVsBossBullets(
                PlayerVsBoss(
                    PlayerVsEnemies(
                        PlayerVsPickups(
                            AfterLevel(p,
                                LevelUpdate(foes, bs, picks,
                                            BulletsUpdate(shots, dt, L),
                                            BulletsUpdate(bbs, dt, L),
                                            dt, L, p),
                                st)))))),
        L)

\* the numbers of the entities an event sequence kills
Killed(events) ==
    {events[i].id : i \in {j \in DOMAIN events : events[j].ev = "kill"}}

---------------------------------------------------------------------------
(* SpecGame: the arena under Game.update at frames clamped to 1/30 s, the   *)
(* fire key pressed at any time, K_d held throughout or not at all         *)

MaxGameTicks == 36

MaxShots == 3

GameDts == {DT30}

\* the keys held throughout a run: none ("stands") or K_d ("runs")
GameKeys == IF who = "runs" THEN {[a |-> FALSE, d |-> TRUE]} ELSE {NoKeys}

\* Game.load_level
GameSpecInit ==
    /\ level \in {"arena", "gang", "duel"}
    /\ who \in {"stands", "runs"}
    /\ player = Player(LevelOf(level).player_spawn)
    /\ enemies = [i \in DOMAIN LevelOf(level).enemies |->
                     WithId(NormalEnemy(LevelOf(level).enemies[i]), i)]
    /\ boss = [i \in DOMAIN LevelOf(level).boss |->
                  WithId(BossEnemy(LevelOf(level).boss[i]), BossId)]
    /\ pickups = [i \in DOMAIN LevelOf(level).pickups |->
                     PickUp(LevelOf(level).pickups[i])]
    /\ boss_bullets = <<>>
    /\ ticks = 0
    /\ trace = Trace0
    /\ state = "PLAYING"
    /\ hCall = NoHCall
    /\ log = Log0
    /\ AnimIdle
    /\ WeaponIdle
    /\ LoadIdle

\* the game after Game.update(dt): the groups, the state, the log.  In the
\* log, hurts is what each take_damage call of the update took off the
\* player's health, since the dt of the updates after the last update that
\* reduced it (-1 before the first), gap the dt of the updates from the one
\* after the last but one reduction to the update of the last (-1 before
\* the second), before the player's bullets as the update found them, dt
\* its argument.
SetGame(g, dt) ==
    /\ player' = g.player
    /\ enemies' = g.enemies
    /\ boss' = g.boss
    /\ bullets' = g.bullets
    /\ boss_bullets' = g.boss_bullets
    /\ pickups' = g.pickups
    /\ state' = g.state
    /\ log' = [log EXCEPT !.events = g.events,
                          !.gone = @ \cup Killed(log.events),
                          !.foes = g.foes,
                          !.flying = g.flying,
                          !.hits = g.hits,
                          !.left = g.bullets,
                          !.before = bullets,
                          !.dt = dt,
                          !.hurts = g.hurts,
                          !.since = IF g.hurts # <<>> THEN 0
                                    ELSE IF @ < 0 THEN @ ELSE @ + dt,
                          !.gap = IF g.hurts # <<>> /\ log.since >= 0
                                  THEN log.since + dt ELSE @]

\* Game.update(dt)
GameUpdate ==
    /\ state = "PLAYING"
    /\ ticks < MaxGameTicks
    /\ \E dt \in GameDts, keys \in GameKeys :
          SetGame(GameAfterPlayer(
                      PlayerUpdate(HandleInput(player, keys), dt,
                                   LevelOf(level)),
                      enemies, boss, pickups, bullets, boss_bullets, state,
                      dt, LevelOf(level)), dt)
    /\ ticks' = ticks + 1
    /\ UNCHANGED <<level, who, trace, hCall, weapon, wPrev, wCall, wHist,
                   animVars, loadVars>>

\* Game.handle_events, KEYDOWN K_SPACE: player.try_shoot(self.bullets)
GameShoot ==
    /\ state = "PLAYING"
    /\ log.shots < MaxShots
    /\ LET r == TryShoot(player, bullets)
       IN  /\ player' = r.player
           /\ bullets' = r.bullets
           /\ log' = [log EXCEPT !.shots =
                         @ + (IF Len(r.bullets) > Len(bullets) THEN 1 ELSE 0)]
    /\ UNCHANGED <<level, who, enemies, boss, boss_bullets, pickups, ticks,
                   trace, state, hCall, weapon, wPrev, wCall, wHist,
                   animVars, loadVars>>

GameNext ==
    \/ GameUpdate
    \/ GameShoot

SpecGame == GameSpecInit /\ [][GameNext]_vars

---------------------------------------------------------------------------
(* SpecDeath: the duel level under Game.update at frames clamped to 1/30 s, *)
(* K_d pressed or not in every frame, until the player has died or left    *)

MaxDeathTicks == 170

\* Game.load_level
DeathSpecInit ==
    /\ level = "duel"
    /\ who = "steps"
    /\ player = Player(LevelOf(level).player_spawn)
    /\ enemies = [i \in DOMAIN LevelOf(level).enemies |->
                     WithId(NormalEnemy(LevelOf(level).enemies[i]), i)]
    /\ boss = [i \in DOMAIN LevelOf(level).boss |->
                  WithId(BossEnemy(LevelOf(level).boss[i]), BossId)]
    /\ pickups = [i \in DOMAIN LevelOf(level).pickups |->
                     PickUp(LevelOf(level).pickups[i])]
    /\ boss_bullets = <<>>
    /\ ticks = 0
    /\ trace = Trace0
    /\ state = "PLAYING"
    /\ hCall = NoHCall
    /\ log = Log0
    /\ AnimIdle
    /\ WeaponIdle
    /\ LoadIdle

\* Game.update(dt) while PLAYING
DeathUpdate ==
    /\ state = "PLAYING"
    /\ ticks < MaxDeathTicks
    /\ \E dt \in GameDts, keys \in {NoKeys, [a |-> FALSE, d |-> TRUE]} :
          SetGame(GameAfterPlayer(
                      PlayerUpdate(HandleInput(player, keys), dt,
                                   LevelOf(level)),
                      enemies, boss, pickups, bullets, boss_bullets, state,
                      dt, LevelOf(level)), dt)
    /\ ticks' = ticks + 1
    /\ UNCHANGED <<level, who, trace, hCall, weapon, wPrev, wCall, wHist,
                   animVars, loadVars>>

\* Game.update(dt) while not PLAYING: it returns at once
DeathUpdateStopped ==
    /\ state # "PLAYING"
    /\ ticks < MaxDeathTicks
    /\ ticks' = ticks + 1
    /\ UNCHANGED <<level, who, player, enemies, boss, bullets, boss_bullets,
                   pickups, state, log, trace, hCall, weapon, wPrev, wCall,
                   wHist, animVars, loadVars>>

DeathNext ==
    \/ DeathUpdate
    \/ DeathUpdateStopped

SpecDeath == DeathSpecInit /\ [][DeathNext]_vars

---------------------------------------------------------------------------
(* SpecLoad: Level.load_csv on small CSV files, well formed or not *)

MaxRows == 3

MaxCols == 2

\* the cell texts tried: two numbers, one of them padded, and a word
CellTexts == {"1", " 0", "x"}

\* the rows of up to MaxCols cells
CsvRows == UNION {[1..n -> CellTexts] : n \in 0..MaxCols}

LoadSpecInit ==
    /\ csv \in UNION {[1..n -> CsvRows] : n \in 0..MaxRows}
    /\ loaded = NoLoad
    /\ state = "PLAYING"
    /\ pickups = <<>>
    /\ hCall = NoHCall
    /\ log = Log0
    /\ AnimIdle
    /\ WeaponIdle
    /\ MoverIdle

\* Level(csv_name): load_csv
DoLoad ==
    /\ loaded.op = "init"
    /\ loaded' = LoadCsvText(csv)
    /\ UNCHANGED <<csv, state, pickups, hCall, log, animVars, weaponVars,
                   moverVars>>

LoadNext == DoLoad

SpecLoad == LoadSpecInit /\ [][LoadNext]_vars

---------------------------------------------------------------------------
(* Claims on the movers (SpecMover, SpecFall, SpecRest, SpecLedge) *)

\* every mover object of the level
AllMovers == <<player>> \o enemies \o boss

Synced(e) == e.x = Round(e.px) /\ e.y = Round(e.py)

\* C1: after every update tick of every mover (Player, NormalEnemy,
\* BossEnemy) the rectangle's origin is the rounded float position, on both
\* axes, whether or not the tick resolved a collision.
C1_FloatRectSync == \A i \in DOMAIN AllMovers : Synced(AllMovers[i])

\* a tick that resolved a collision on both axes
C1_Witness ==
    /\ ticks > 0
    /\ trace.hitX
    /\ trace.hitY
    /\ Len(Movers) > 0
    /\ Synced(Movers[1])

\* C2: a mover that starts a tick overlapping no solid rectangle overlaps
\* none after the horizontal step and none after the vertical step of the
\* tick.  (Violated: Player.update snaps to the first tile of the hits and
\* zeroes vel.y, so a second tile of the same step is left overlapped.)
C2_NonPenetration ==
    (ticks > 0 /\ ~RectCollidesSolid(LevelOf(level), trace.pre)) =>
        /\ ~RectCollidesSolid(LevelOf(level), trace.afterX)
        /\ \A i \in DOMAIN Movers :
              ~RectCollidesSolid(LevelOf(level), RectOf(Movers[i]))

\* the mover ends the tick beyond a solid tile it began the tick before,
\* along y or along x
Crossed(m) ==
    \E i \in DOMAIN LevelOf(level).solid_rects :
        LET t == LevelOf(level).solid_rects[i]
            p == trace.pre
        IN  \/ /\ t.x < m.x + m.w
               /\ m.x < t.x + t.w
               /\ \/ p.y + p.h <= t.y /\ m.y >= t.y + t.h
                  \/ p.y >= t.y + t.h /\ m.y + m.h <= t.y
            \/ /\ t.y < m.y + m.h
               /\ m.y < t.y + t.h
               /\ \/ p.x + p.w <= t.x /\ m.x >= t.x + t.w
                  \/ p.x >= t.x + t.w /\ m.x + m.w <= t.x

\* C3: with every dt at most 1/30 s no mover ends a tick on the far side of
\* a solid tile it was on the near side of when the tick began without the
\* collision being detected.  (Violated: vel.y has no bound, and after 26
\* ticks of 1/30 s a 32 px mover falls 54 px in one tick.)
C3_NoTunnelling ==
    \A i \in DOMAIN Movers :
        (ticks > 0 /\ trace.dt <= DT30) =>
            ~(Crossed(Movers[i]) /\ ~trace.hitX /\ ~trace.hitY)

\* C4: a mover whose rectangle's bottom rests on the top of a solid tile
\* with zero vertical velocity, and that does not move horizontally, is
\* grounded at the end of each of 1000 consecutive ticks of dt = 1/60.
C4_GroundedStable ==
    \A i \in DOMAIN Movers : trace.rest > 0 => Movers[i].on_ground

\* the thousandth consecutive tick at rest
C4_Witness ==
    /\ trace.rest >= MaxRestTicks
    /\ trace.dt = DT60
    /\ Len(Movers) > 0
    /\ Movers[1].on_ground

---------------------------------------------------------------------------
(* Claims on the Weapon (SpecWeapon) *)

ScenarioDone ==
    /\ weapon.cooldown = Ms(500)
    /\ wHist.script = Len(ScenarioTimes) + 1

\* C5 as stated: with cooldown 0.5 s, the fire requests at t = 0, 0.1, 0.4,
\* 0.5 and 0.6 spawn projectiles exactly at t = 0, 0.5 and 0.6.
C5_Original ==
    ScenarioDone =>
        /\ wHist.shots = {0, Ms(500), Ms(600)}
        /\ Len(bullets) = 3

\* C5 as amended: they spawn projectiles exactly at t = 0 and 0.5 (two
\* spawns); the request at 0.6, only 0.1 s after the shot at 0.5, is ignored.
C5_RateLimit ==
    ScenarioDone =>
        /\ wHist.shots = {0, Ms(500)}
        /\ Len(bullets) = 2

\* the five requests of the scenario have been made, and the clock is at 0.6
C5_Witness ==
    /\ ScenarioDone
    /\ wHist.clock = Ms(600)
    /\ wCall.op = "shoot"

\* C6: a shoot call made while time_since_shot < cooldown changes neither
\* the projectile collection nor time_since_shot.
C6_NotReadyIgnored ==
    (wCall.op = "shoot"
        /\ wPrev.weapon.time_since_shot < wPrev.weapon.cooldown) =>
        /\ bullets = wPrev.bullets
        /\ weapon = wPrev.weapon

\* a shoot call made 0.1 s after a shot, with the shot still in the group
C6_Witness ==
    /\ wCall.op = "shoot"
    /\ wPrev.weapon.time_since_shot = Ms(100)
    /\ wPrev.weapon.time_since_shot < wPrev.weapon.cooldown
    /\ Len(bullets) = 1

\* C7: a shoot call made while time_since_shot >= cooldown resets
\* time_since_shot to 0 and adds exactly one projectile, with velocity
\* (BULLET_SPEED * direction, 0), alive_time 0 and the full lifetime; and
\* the first shoot call on a weapon always spawns a projectile.
C7_ReadyFires ==
    /\ (wCall.op = "shoot"
          /\ wPrev.weapon.time_since_shot >= wPrev.weapon.cooldown) =>
          /\ weapon.time_since_shot = 0
          /\ weapon.cooldown = wPrev.weapon.cooldown
          /\ Len(bullets) = Len(wPrev.bullets) + 1
          /\ SubSeq(bullets, 1, Len(wPrev.bullets)) = wPrev.bullets
          /\ LET b == bullets[Len(bullets)]
             IN  /\ b.vx = BULLET_SPEED * wCall.direction
                 /\ b.vy = 0
                 /\ b.alive_time = 0
                 /\ b.lifetime = Ms(1200)
                 /\ 2 * b.x + b.w = 2 * wCall.pos.x
                 /\ 2 * b.y + b.h = 2 * wCall.pos.y
    /\ wHist.reqs >= 1 => Len(bullets) >= 1

\* a second projectile, shot to the left, after the cooldown has elapsed
C7_Witness ==
    /\ wCall.op = "shoot"
    /\ wCall.direction = -1
    /\ wPrev.weapon.time_since_shot = wPrev.weapon.cooldown
    /\ Len(bullets) = 2
    /\ bullets[2].vx = -BULLET_SPEED

---------------------------------------------------------------------------
(* Claims on the Animation (SpecAnim) *)

\* C8: one frame per update.  A single update call leaves the frame index
\* unchanged, advances it by one, or wraps it from the last frame to 0,
\* whatever dt and speed are and however much time the timer holds.
C8_OneFramePerUpdate ==
    animCall.op = "update" =>
        \/ anim.index = animPrev.index
        \/ anim.index = animPrev.index + 1
        \/ anim.index = 0 /\ animPrev.index = animPrev.frames - 1

\* an update with a one second dt whose timer held two frame durations or
\* more, and which advanced the index by one
C8_Witness ==
    /\ animCall.op = "update"
    /\ animCall.dt = Ms(1000)
    /\ animPrev.timer + AnimStep(animCall.dt, animCall.speed)
          >= 2 * anim.frame_duration
    /\ anim.index = animPrev.index + 1

\* C9 as stated: index is in [0, frames-1] and timer is in
\* [0, frame_duration) in every state.
C9_Original ==
    /\ anim.index \in 0..(anim.frames - 1)
    /\ anim.timer >= 0
    /\ anim.timer < anim.frame_duration

\* C9 as amended: index is in [0, frames-1] and timer >= 0 in every state,
\* and timer < frame_duration as long as no update since construction or
\* reset added a step min(dt, 1/30) * speed above frame_duration.
C9_AnimInvariant ==
    /\ anim.index \in 0..(anim.frames - 1)
    /\ anim.timer >= 0
    /\ animHist.fit => anim.timer < anim.frame_duration

\* an update that wrapped from the last frame to 0 and kept a remainder
C9_Witness ==
    /\ animCall.op = "update"
    /\ animHist.fit
    /\ anim.frames > 1
    /\ animPrev.index = anim.frames - 1
    /\ anim.index = 0
    /\ anim.timer > 0

\* C10 as stated: for a looping animation under updates at speed 1 with
\* every dt <= 1/30 s and total T, index = floor(T / D) mod N.
C10_Original ==
    (anim.loop /\ animHist.unit) =>
        anim.index = (animHist.T \div anim.frame_duration) % anim.frames

\* C10 as amended: the same, provided every dt is also at most the frame
\* duration D (as it is whenever D >= 1/30 s).
C10_Monotonic ==
    (anim.loop /\ animHist.unit /\ animHist.fit) =>
        anim.index = (animHist.T \div anim.frame_duration) % anim.frames

\* a looping animation of several frames that has gone round once
C10_Witness ==
    /\ anim.loop /\ animHist.unit /\ animHist.fit
    /\ anim.frames > 1
    /\ animHist.T \div anim.frame_duration > anim.frames
    /\ anim.index = 1
    /\ anim.timer > 0

\* C11 as stated: a non-looping animation of N frames and frame duration D
\* is finished exactly once the accumulated time (updates at speed 1, each
\* dt at most 1/30 s and at most D) exceeds (N-1)*D.
C11_Original ==
    (~anim.loop /\ animHist.unit /\ animHist.fit) =>
        (anim.finished <=>
            animHist.T > (anim.frames - 1) * anim.frame_duration)

\* C11 as amended: under the same updates it is finished exactly once the
\* accumulated time has reached N*D (the last frame is held for D as well);
\* a finished animation is non-looping and shows its last frame N-1, and an
\* update of a finished animation changes nothing (only reset clears it).
C11_Termination ==
    /\ (~anim.loop /\ animHist.unit /\ animHist.fit) =>
          (anim.finished <=>
              animHist.T >= anim.frames * anim.frame_duration)
    /\ anim.finished => (~anim.loop /\ anim.index = anim.frames - 1)
    /\ (animCall.op = "update" /\ animPrev.finished) => anim = animPrev
    /\ (animCall.op = "reset") => ~anim.finished

\* a three frame animation that finished, updated once more
C11_Witness ==
    /\ ~anim.loop /\ animHist.unit /\ animHist.fit
    /\ anim.frames = 3
    /\ animCall.op = "update"
    /\ animPrev.finished
    /\ anim.finished
    /\ anim.index = 2

---------------------------------------------------------------------------
(* Claims on the jump (SpecLedge) *)

\* the last tick was the first update after a jump request that arrived
\* at time t since the player, having walked off a ledge, was last grounded
RequestAt(t) ==
    /\ who = "player"
    /\ ticks > 0
    /\ trace.fresh
    /\ trace.preWalk
    /\ trace.preAir <= t
    /\ trace.air >= t

\* C12: the player walks off a ledge at t = 0 and a jump request arrives at
\* t = 0.08 s, inside the 0.10 s coyote window: the next player update
\* executes the jump, vel.y = -JUMP_SPEED.  (Violated: update takes dt off
\* coyote_timer before it looks at the request, so an update of 1/30 s
\* that follows the request finds the timer at 0.)
C12_CoyoteJump ==
    RequestAt(Ms(80)) => (trace.jumped /\ player.vy = -Vel(JUMP_SPEED))

\* C13: once 0.15 s have passed since the player left the ground, no tick
\* that leaves it airborne executes a jump, whatever request is pending;
\* a tick executes a jump only if it found the player grounded or less
\* than the coyote time had passed since it was.
C13_LateJumpFails ==
    who = "player" =>
        /\ (trace.air >= Ms(150) /\ ~trace.grounded) =>
              (~trace.jumped /\ player.vy # -Vel(JUMP_SPEED))
        /\ trace.jumped =>
              (trace.grounded \/ trace.air < COYOTE_TIME)

\* the update after a request that arrived 0.15 s after walking off the
\* ledge: still airborne, no jump, the request still buffered
C13_Witness ==
    /\ who = "player"
    /\ trace.fresh
    /\ trace.preWalk
    /\ trace.preAir >= Ms(150)
    /\ ~trace.grounded
    /\ ~trace.jumped
    /\ player.jump_buffer > 0
    /\ player.vy > 0

---------------------------------------------------------------------------
(* Claims on the projectiles (SpecBullet) *)

\* the projectile of the last bullet pass, before it and moved by it
ShotBefore == wPrev.bullets[1]

ShotMoved == BulletMoved(wPrev.bullets[1], wCall.dt)

\* C14: a projectile that meets no solid tile is destroyed by the first
\* update at which its accumulated alive time reaches its lifetime (1.2 s)
\* and survives every earlier one, inside the level bounds or outside; no
\* projectile left in the group has reached its lifetime.
C14_Lifetime ==
    /\ \A i \in DOMAIN bullets :
          /\ bullets[i].alive_time < bullets[i].lifetime
          /\ bullets[i].lifetime = Ms(1200)
    /\ (wCall.op = "tick" /\ Len(wPrev.bullets) = 1) =>
          /\ ShotMoved.alive_time >= ShotBefore.lifetime => bullets = <<>>
          /\ (/\ ShotMoved.alive_time < ShotBefore.lifetime
              /\ ~RectCollidesSolid(LevelOf(level), RectOf(ShotMoved))) =>
                bullets = <<ShotMoved>>

\* a projectile inside the level bounds that met no tile is destroyed by
\* the update at which its alive time reaches 1.2 s
C14_Witness ==
    /\ wCall.op = "tick"
    /\ Len(wPrev.bullets) = 1
    /\ ShotBefore.alive_time < Ms(1200)
    /\ ShotMoved.alive_time >= Ms(1200)
    /\ ~RectCollidesSolid(LevelOf(level), RectOf(ShotMoved))
    /\ ShotMoved.x >= 0
    /\ ShotMoved.x + ShotMoved.w <= LevelOf(level).pixel_width
    /\ bullets = <<>>

\* C15: an update after whose move the projectile's rectangle overlaps a
\* solid tile destroys the projectile in that same update, whatever
\* lifetime it has left.
C15_TileDespawn ==
    (/\ wCall.op = "tick"
     /\ Len(wPrev.bullets) = 1
     /\ RectCollidesSolid(LevelOf(level), RectOf(ShotMoved))) =>
        bullets = <<>>

\* the projectile reaches the block about 0.3 s after it was shot
C15_Witness ==
    /\ wCall.op = "tick"
    /\ Len(wPrev.bullets) = 1
    /\ RectCollidesSolid(LevelOf(level), RectOf(ShotMoved))
    /\ ~RectCollidesSolid(LevelOf(level), RectOf(ShotBefore))
    /\ ShotMoved.alive_time < Ms(400)
    /\ bullets = <<>>


---------------------------------------------------------------------------
(* Claims on health (SpecHealth) *)

EnemyHit == hCall.op = "take_damage" /\ hCall.on \in {"enemy", "shooter"}

PlayerHit == hCall.op = "take_damage" /\ hCall.on = "player"

\* C16: an enemy is removed from level.enemies at the first take_damage
\* call that leaves its health <= 0, and by no earlier call; a patrol enemy
\* of health 30 is still in the group after one hit of 15 and is removed by
\* the second.
C16_RemovalThreshold ==
    /\ EnemyHit =>
          /\ hCall.before.alive
          /\ hCall.before.health > 0
          /\ hCall.after.health = hCall.before.health - hCall.amount
          /\ hCall.after.alive <=> hCall.after.health > 0
          /\ Len(enemies) = IF hCall.after.health > 0 THEN 1 ELSE 0
    /\ (who \in {"enemy", "shooter"} /\ Len(enemies) = 0) =>
          (EnemyHit /\ hCall.after.health <= 0)
    /\ (EnemyHit /\ hCall.on = "enemy" /\ hCall.amount = 15) =>
          /\ hCall.before.health = 30 =>
                (Len(enemies) = 1 /\ enemies[1].health = 15)
          /\ hCall.before.health = 15 => Len(enemies) = 0

\* the second hit of 15 on the patrol enemy has removed it
C16_Witness ==
    /\ EnemyHit
    /\ hCall.on = "enemy"
    /\ hCall.amount = 15
    /\ hCall.before.health = 15
    /\ Len(enemies) = 0

\* C17: take_damage(amount) while invuln_time > 0 leaves health and the
\* timer as they were; otherwise health becomes max(0, health - amount) and
\* invuln_time becomes 0.6 s.
C17_DamageInvuln ==
    PlayerHit =>
        IF hCall.before.invuln_time > 0
        THEN hCall.after = hCall.before
        ELSE /\ hCall.after.health =
                    Max(0, hCall.before.health - hCall.amount)
             /\ hCall.after.invuln_time = Ms(600)

\* a hit landed, and a later one was made inside the window it opened
C17_Witness ==
    /\ PlayerHit
    /\ hCall.amount > 0
    /\ hCall.before.invuln_time > 0
    /\ hCall.before.invuln_time < Ms(600)
    /\ hCall.before.health < PLAYER_MAX_HEALTH

\* C18: every entity's health stays within 0 and its maximum, whatever
\* take_damage and heal calls with non-negative amounts are made.
C18_HealthRange ==
    /\ player.health >= 0
    /\ player.health <= player.max_health
    /\ \A i \in DOMAIN boss :
          boss[i].health >= 0 /\ boss[i].health <= boss[i].max_health
    /\ hCall.op # "init" =>
          (hCall.after.health >= 0 /\ hCall.after.health <= hCall.full)

\* C19: heal(amount) sets health to min(max_health, health + amount); the
\* pickup's 25 points at health 80 of 100 give exactly 100.
C19_HealClamped ==
    (hCall.on = "player" /\ hCall.op \in {"heal", "pickup"}) =>
        /\ hCall.after.health =
               Min(hCall.full, hCall.before.health + hCall.amount)
        /\ hCall.after.invuln_time = hCall.before.invuln_time
        /\ hCall.op = "pickup" =>
              /\ hCall.amount = 25
              /\ hCall.before.health = 80 => player.health = 100

\* a pickup collected at health 80
C19_Witness ==
    /\ hCall.op = "pickup"
    /\ hCall.before.health = 80
    /\ player.health = 100
    /\ player.max_health = 100


---------------------------------------------------------------------------
(* Claims on Game.update (SpecGame) *)

\* the entities killed before event i of the last update: in an earlier
\* update, or earlier in this one
GoneAt(i) ==
    log.gone \cup
        {log.events[j].id :
            j \in {m \in 1..(i - 1) : log.events[m].ev = "kill"}}

\* C20: an enemy that has been killed (health <= 0, or fallen out of the
\* world) is not updated, absorbs no projectile and deals no contact damage
\* from then on, in the rest of that update and in every later one; the
\* same for the boss while it is not alive.
C20_DeadExcluded ==
    /\ \A i \in DOMAIN log.events : log.events[i].id \notin GoneAt(i)
    /\ \A k \in DOMAIN enemies :
          /\ enemies[k].id \notin log.gone \cup Killed(log.events)
          /\ enemies[k].alive
          /\ enemies[k].health > 0
    /\ \A k \in DOMAIN boss :
          ~boss[k].alive =>
              \A i \in DOMAIN log.events : log.events[i].id # BossId

\* both enemies were killed in earlier updates, and an update with a
\* bullet in flight has run since without an event
C20_Witness ==
    /\ log.gone = {1, 2}
    /\ log.events = <<>>
    /\ Len(bullets) > 0
    /\ Len(enemies) = 0
    /\ ticks > 0


\* the entries of log.hits made by the i-th bullet of the pass, and on an
\* entity
HitsOf(i) == {j \in DOMAIN log.hits : log.hits[j].shot = i}

HitsOn(id) == {j \in DOMAIN log.hits : log.hits[j].id = id}

\* the bullets of the pass that hit nothing
Misses == {i \in DOMAIN log.flying : HitsOf(i) = {}}

\* the members of level.enemies, as the pass found it, that its i-th bullet
\* overlaps and that the bullets before it have not killed
Overlapped(i) ==
    {k \in DOMAIN log.foes :
        /\ Collide(RectOf(log.flying[i]), RectOf(log.foes[k]))
        /\ log.foes[k].health - BULLET_DAMAGE *
              Cardinality({j \in HitsOn(log.foes[k].id) :
                              log.hits[j].shot < i}) > 0}

\* C21: in one Level.update a projectile damages at most one enemy, the
\* first one found, by 15, and is destroyed by the hit; a hit on an enemy
\* is no hit on the boss; a projectile that overlaps no enemy and not the
\* boss is left in its group, and health changes by the hits only.
C21_ProjectileRule ==
    /\ \A i \in DOMAIN log.flying :
          /\ Cardinality(HitsOf(i)) <= 1
          /\ Overlapped(i) # {} =>
                \E j \in HitsOf(i) :
                    \E k \in Overlapped(i) :
                        /\ log.hits[j].id = log.foes[k].id
                        /\ \A m \in Overlapped(i) : k <= m
          /\ (Overlapped(i) = {} /\ \A k \in DOMAIN boss : ~boss[k].alive)
                => HitsOf(i) = {}
    /\ Len(log.left) = Cardinality(Misses)
    /\ \A i \in Misses :
          log.left[Cardinality({m \in Misses : m <= i})] = log.flying[i]
    /\ \A k \in DOMAIN log.foes :
          LET e == log.foes[k]
              h == e.health - BULLET_DAMAGE * Cardinality(HitsOn(e.id))
          IN  IF h > 0
              THEN \E m \in DOMAIN enemies :
                      enemies[m] = [e EXCEPT !.health = h]
              ELSE \A m \in DOMAIN enemies : enemies[m].id # e.id

\* a bullet that overlapped two enemies has hit the first of them only
C21_Witness ==
    /\ \E j \in DOMAIN log.hits :
          /\ Cardinality(Overlapped(log.hits[j].shot)) = 2
          /\ log.hits[j].id = 1
    /\ Len(log.hits) = 1
    /\ Len(enemies) = 2
    /\ enemies[1].health = 15
    /\ enemies[2].health = 30


---------------------------------------------------------------------------
(* Claims on the level loader (SpecLoad) *)

\* the cell texts that are numbers
Numerals == {"1", " 0"}

\* some row is shorter or longer than the first, or some cell is no number
Malformed(rows) ==
    \/ \E r \in DOMAIN rows : Len(rows[r]) # Len(rows[1])
    \/ \E r \in DOMAIN rows : \E c \in DOMAIN rows[r] :
          rows[r][c] \notin Numerals

\* C22: loading a grid with a row shorter or longer than the first, or with
\* a cell that is not a number, fails with an error and produces no level.
C22_MalformedFatal ==
    (loaded.op = "load" /\ Malformed(csv)) =>
        (loaded.error # "none" /\ loaded.level = <<>>)

\* what holds of the loader: a cell that is no number, or a row shorter
\* than the first, is an error and no level is produced
C22_ShortOrTextFatal ==
    (/\ loaded.op = "load"
     /\ \/ \E r \in DOMAIN csv : Len(csv[r]) < Len(csv[1])
        \/ \E r \in DOMAIN csv : \E c \in DOMAIN csv[r] :
              csv[r][c] \notin Numerals)
        => (loaded.error # "none" /\ loaded.level = <<>>)


---------------------------------------------------------------------------
(* Claims on the collision response (SpecMover) *)

\* C23: when the horizontal step of the player or the boss overlaps a solid
\* rectangle, pos.x after the step is pos.x before it (the delta is undone,
\* with no snap to the tile), rect.x is round(pos.x), and vel.x is 0.
C23_HorizontalUndo ==
    (who \in {"player", "boss"} /\ ticks > 0 /\ trace.hitX) =>
        /\ trace.axPx = trace.prePx
        /\ trace.afterX.x = Round(trace.axPx)
        /\ trace.axVx = 0

\* what holds of the boss: the step is undone and vel.x is 0
C23_BossUndo ==
    (who = "boss" /\ ticks > 0 /\ trace.hitX) =>
        /\ trace.axPx = trace.prePx
        /\ trace.afterX.x = Round(trace.axPx)
        /\ trace.axVx = 0


\* C24: a NormalEnemy's vel.x keeps the magnitude 80; in a tick whose
\* horizontal step overlaps a solid rectangle the step is undone and vel.x
\* and facing are negated, in every other tick both are unchanged; facing is
\* -1 or 1 and keeps its relation to the sign of vel.x.
C24_PatrolControl ==
    /\ \A k \in DOMAIN enemies :
          /\ Abs(enemies[k].vx) = Vel(80)
          /\ enemies[k].facing \in {-1, 1}
          /\ enemies[k].facing * enemies[k].vx = -Vel(80)
    /\ (who = "enemy" /\ ticks > 0) =>
          /\ Abs(trace.axVx) = Vel(80)
          /\ trace.axFacing \in {-1, 1}
          /\ trace.axFacing * trace.axVx = trace.preFacing * trace.preVx
          /\ IF trace.hitX
             THEN /\ trace.axPx = trace.prePx
                  /\ trace.afterX.x = Round(trace.axPx)
                  /\ trace.axVx = -trace.preVx
                  /\ trace.axFacing = -trace.preFacing
             ELSE /\ trace.axPx = trace.prePx + trace.preVx * trace.dt
                  /\ trace.axVx = trace.preVx
                  /\ trace.axFacing = trace.preFacing
          /\ \A k \in DOMAIN enemies :
                k = 1 => (/\ enemies[k].vx = trace.axVx
                          /\ enemies[k].facing = trace.axFacing)

\* a patrol enemy walking left has met a wall and turned round
C24_Witness ==
    /\ who = "enemy"
    /\ trace.hitX
    /\ trace.preVx = -Vel(80)
    /\ trace.axVx = Vel(80)
    /\ trace.axFacing = -1
    /\ trace.axPx = trace.prePx
    /\ Len(enemies) > 0


---------------------------------------------------------------------------
(* Claims on falling out of the level (SpecFall) *)

\* the bound below which NormalEnemy.update calls kill()
VoidLine == LevelOf(level).pixel_height + 200

\* after its update a patrol enemy below the bound has left level.enemies
C26_PatrolVoid ==
    \A k \in DOMAIN enemies : enemies[k].y <= VoidLine

\* C26: after its update tick any enemy moved by the gravity and collision
\* steps, patrol enemy or boss, whose rect.top is greater than
\* level.pixel_height + 200 has been destroyed: none is still there, being
\* updated, below that bound
C26_VoidDestroyed ==
    /\ C26_PatrolVoid
    /\ \A k \in DOMAIN boss : boss[k].y <= VoidLine


---------------------------------------------------------------------------
(* Claims on the jump timers (SpecLedge) and the jump release (SpecJump)   *)

\* C27: in every state 0 <= jump_buffer <= 0.12 and 0 <= coyote_timer <=
\* 0.10; the timer step of update takes dt off each and clamps it at 0; an
\* update that executes a jump ends with both timers 0 and on_ground
\* False; one that does not leaves jump_buffer as the timer step left it,
\* and coyote_timer too unless the player is on the ground, which refills it
C27_JumpTimers ==
    /\ 0 <= player.jump_buffer /\ player.jump_buffer <= Ms(120)
    /\ 0 <= player.coyote_timer /\ player.coyote_timer <= Ms(100)
    /\ (who = "player" /\ ticks > 0) =>
          /\ trace.timers.jump_buffer
                 = Max(0, trace.preTimers.jump_buffer - trace.dt)
          /\ trace.timers.coyote_timer
                 = Max(0, trace.preTimers.coyote_timer - trace.dt)
          /\ IF trace.jumped
             THEN /\ trace.endTimers.jump_buffer = 0
                  /\ trace.endTimers.coyote_timer = 0
                  /\ ~trace.endTimers.on_ground
             ELSE /\ trace.endTimers.jump_buffer = trace.timers.jump_buffer
                  /\ trace.endTimers.coyote_timer =
                        IF trace.grounded THEN Ms(100)
                        ELSE trace.timers.coyote_timer
                  /\ trace.endTimers.on_ground = trace.grounded

\* a jump executed in the air within the coyote window, the buffer and the
\* window both part used
C27_Witness ==
    /\ who = "player"
    /\ trace.jumped
    /\ ~trace.grounded
    /\ trace.timers.jump_buffer > 0
    /\ trace.timers.jump_buffer < Ms(120)
    /\ trace.timers.coyote_timer > 0
    /\ trace.endTimers.jump_buffer = 0
    /\ trace.endTimers.coyote_timer = 0


\* C28: a cut_jump call while vel.y < 0 multiplies vel.y by 0.45, in that
\* call only: the updates that follow change vel.y by gravity and the
\* collisions alone; a call while vel.y >= 0 leaves vel.y unchanged; the
\* call changes neither the position nor the jump timers
C28_VariableJump ==
    /\ trace.cut.calls > 0 =>
          /\ trace.cut.pre.vy < 0 =>
                100 * trace.cut.post.vy = 45 * trace.cut.pre.vy
          /\ trace.cut.pre.vy >= 0 => trace.cut.post.vy = trace.cut.pre.vy
          /\ trace.cut.post = [trace.cut.pre EXCEPT !.vy = trace.cut.post.vy]
          /\ trace.cut.age = 0 => player.vy = trace.cut.post.vy
          /\ trace.cut.age = 1 => trace.preVy = trace.cut.post.vy
    /\ (who = "player" /\ ticks > 0) =>
          trace.axVy = trace.preVy + (Vel(1800) * trace.dt) \div Ms(1000)

\* the jump key released on the way up, and two updates later the player
\* still rising
C28_Witness ==
    /\ trace.cut.calls > 0
    /\ trace.cut.pre.vy < 0
    /\ trace.cut.post.vy < 0
    /\ trace.cut.post.vy > trace.cut.pre.vy
    /\ trace.cut.age = 2
    /\ player.vy < 0
    /\ player.vy = trace.cut.post.vy + 2 * ((Vel(1800) * trace.dt) \div Ms(1000))


---------------------------------------------------------------------------
(* Claims on the animation selection (SpecSelect) *)

\* the selection as update makes it: by on_ground and the moving flag that
\* handle_input sets while K_a or K_d is down
C29_ByKeys ==
    (who = "player" /\ ticks > 0) =>
        player.current_anim = IF ~player.on_ground THEN "jump"
                              ELSE IF player.moving THEN "run"
                              ELSE "idle"

\* C29: at the end of every player update the active animation is the jump
\* animation if the player is not grounded, else the run animation if its
\* horizontal velocity is not zero, else the idle animation; a grounded
\* player with zero horizontal velocity shows the idle animation
C29_SelectionPriority ==
    (who = "player" /\ ticks > 0) =>
        player.current_anim = IF ~player.on_ground THEN "jump"
                              ELSE IF player.vx # 0 THEN "run"
                              ELSE "idle"


\* C30: the player's active animation is reset to index 0, timer 0 only in
\* an update that selects an animation other than the one active before it,
\* and is then advanced by dt; an animation selected again carries its
\* index and timer over and advances from them; the animations that are
\* not active are left as they were
C30_NoRestartJitter ==
    (who = "player" /\ ticks > 0) =>
        LET name == player.current_anim
            was  == trace.preAnim.anims[name]
        IN  /\ player.anims[name] =
                  IF name # trace.preAnim.current_anim
                  THEN AnimUpdate([was EXCEPT !.index = 0, !.timer = 0,
                                              !.finished = FALSE],
                                  trace.dt, SpeedDen)
                  ELSE AnimUpdate(was, trace.dt, SpeedDen)
            /\ \A other \in {"idle", "run", "jump"} \ {name} :
                  player.anims[other] = trace.preAnim.anims[other]

\* the run animation selected again after two updates of it and one of
\* another animation: it restarts; and the other keeps its timer
C30_Witness ==
    /\ who = "player"
    /\ ticks > 0
    /\ player.current_anim = "run"
    /\ trace.preAnim.current_anim # "run"
    /\ trace.preAnim.anims["run"].timer = 2 * trace.dt
    /\ player.anims["run"].timer = trace.dt
    /\ player.anims[trace.preAnim.current_anim].timer > 0


---------------------------------------------------------------------------
(* Claims on the projectile's motion (SpecBullet) *)

\* what one update leaves alone and how far it moves: y and the velocity
\* are unchanged, and x moves toward vel.x * dt by less than a pixel short
C31_WithinOnePixel ==
    (wCall.op = "tick" /\ Len(wPrev.bullets) = 1) =>
        /\ ShotMoved.y = ShotBefore.y
        /\ ShotMoved.vx = ShotBefore.vx
        /\ ShotMoved.vy = 0
        /\ Abs(ShotMoved.vx) = BULLET_SPEED
        /\ Abs(Ms(1000) * (ShotMoved.x - ShotBefore.x))
              <= Abs(ShotBefore.vx * wCall.dt)
        /\ Abs(ShotBefore.vx * wCall.dt)
              - Abs(Ms(1000) * (ShotMoved.x - ShotBefore.x)) < Ms(1000)

\* C31: in each projectile update with step dt the projectile's x changes
\* by vel.x * dt = BULLET_SPEED * direction * dt (so that after a time T it
\* has moved BULLET_SPEED * direction * T); its y and its velocity never
\* change
C31_ProjectileMotion ==
    (wCall.op = "tick" /\ Len(wPrev.bullets) = 1) =>
        /\ Ms(1000) * (ShotMoved.x - ShotBefore.x) = ShotBefore.vx * wCall.dt
        /\ ShotMoved.y = ShotBefore.y
        /\ ShotMoved.vx = ShotBefore.vx
        /\ ShotMoved.vy = ShotBefore.vy


---------------------------------------------------------------------------
(* Claims on the shooter enemy (SpecShooter) *)

\* the shooter's weapon is ready once its timer has been advanced by dt
ShooterReady == wPrev.weapon.time_since_shot + wCall.dt >= Ms(900)

\* the player's centre is within range_px of the shooter's
ShooterInRange == Abs(wCall.pos.x - CenterX(enemies[1])) <= 520

\* C32: a ShooterEnemy's rectangle never changes; every update sets its
\* facing toward the player; an update adds a projectile to the group if
\* and only if the player's centre is at most range_px = 520 from its own
\* and its weapon is ready once the timer has been advanced by dt; none is
\* added while the player is out of range
C32_ShooterPolicy ==
    /\ RectOf(enemies[1]) = Rect(ShooterPos.x, ShooterPos.y, 32, 32)
    /\ wCall.op = "shooter" =>
          /\ enemies[1].facing =
                IF wCall.pos.x > CenterX(enemies[1]) THEN 1 ELSE -1
          /\ IF ShooterInRange /\ ShooterReady
             THEN /\ Len(boss_bullets) = Len(wPrev.bullets) + 1
                  /\ SubSeq(boss_bullets, 1, Len(wPrev.bullets))
                        = wPrev.bullets
                  /\ boss_bullets[Len(boss_bullets)].vx
                        = BULLET_SPEED * enemies[1].facing
                  /\ enemies[1].weapon.time_since_shot = 0
             ELSE /\ boss_bullets = wPrev.bullets
                  /\ enemies[1].weapon.time_since_shot
                        = wPrev.weapon.time_since_shot + wCall.dt

\* the second shot: the player exactly at range on the left, the weapon
\* ready again 0.9 s after the first
C32_Witness ==
    /\ wCall.op = "shooter"
    /\ wCall.pos.x = CenterX(enemies[1]) - 520
    /\ ShooterReady
    /\ Len(wPrev.bullets) = 1
    /\ Len(boss_bullets) = 2
    /\ boss_bullets[2].vx = -BULLET_SPEED


---------------------------------------------------------------------------
(* Claims on the boss (SpecGame, SpecMover) *)

\* the places of the boss's update in the events of the last Level.update
BossUpdates == {j \in DOMAIN log.events : log.events[j] = Event("update", BossId)}

\* BossEnemy.update called on the boss itself (SpecMover): before the
\* movement vel.x is speed times the direction toward the player, and the
\* weapon has fired whenever it was ready
C33_DirectCall ==
    (who = "boss" /\ ticks > 0 /\ Len(boss) > 0) =>
        /\ trace.axFacing = FacePlayer([x |-> trace.pre.x, w |-> trace.pre.w],
                                       player)
        /\ ~trace.hitX => trace.axVx = Vel(110) * trace.axFacing
        /\ trace.hitX => trace.axVx = 0
        /\ boss[1].weapon.time_since_shot < Ms(600)

\* C33: in every Level.update tick in which a boss was spawned and has not
\* been killed (its health is above 0) the boss's update runs, after the
\* enemies' updates and before the projectile resolution
C33_BossDriven ==
    (ticks > 0 /\ Len(boss) > 0 /\ boss[1].health > 0) =>
        /\ BossUpdates # {}
        /\ \A j \in BossUpdates, k \in DOMAIN log.events :
              /\ (log.events[k].ev = "update" /\ log.events[k].id # BossId)
                    => k < j
              /\ log.events[k].ev = "absorb" => j < k


\* C34: a live player projectile that overlaps no enemy but overlaps the
\* rectangle of the boss, while the boss has been spawned and not killed
\* (its health is above 0), hits the boss and is destroyed in that tick
C34_ProjectileVsBoss ==
    \A i \in DOMAIN log.flying :
        (/\ ticks > 0
         /\ Overlapped(i) = {}
         /\ Len(boss) > 0
         /\ boss[1].health > 0
         /\ Collide(RectOf(log.flying[i]), RectOf(boss[1]))) =>
            /\ \E j \in HitsOf(i) : log.hits[j].id = BossId
            /\ i \notin Misses


\* the player's rectangle overlaps the exit rectangle of the level
AtExit ==
    /\ Len(LevelOf(level).exit_rect) > 0
    /\ Collide(RectOf(player), LevelOf(level).exit_rect[1])

\* the level is complete only with the player at the exit
C35_ExitOnly == state = "LEVEL_COMPLETE" => AtExit

\* C35: the state becomes LEVEL_COMPLETE only in a tick where the player
\* overlaps the exit rectangle and the level either spawned no boss or its
\* boss has health <= 0; while a spawned boss has health above 0, touching
\* the exit does not complete the level
C35_BossGate ==
    state = "LEVEL_COMPLETE" =>
        /\ AtExit
        /\ Len(boss) = 0 \/ boss[1].health <= 0


---------------------------------------------------------------------------
(* Claims on the spacing of shots (SpecWeapon) *)

\* C36: for every weapon and every interleaving of update(dt) and fire
\* requests, the dt accumulated by the weapon's update calls between any two
\* successive projectiles it emits is at least the weapon's cooldown: every
\* projectile in the group was spawned at a clock value of its own, and any
\* two of these clock values are at least one cooldown apart.
C36_MinShotSpacing ==
    /\ Len(bullets) = Cardinality(wHist.shots)
    /\ \A s \in wHist.shots, t \in wHist.shots :
          s < t => t - s >= weapon.cooldown

\* a second projectile has just been emitted, exactly one cooldown of
\* accumulated dt after the first, with a refused request in between
C36_Witness ==
    /\ wCall.op = "shoot"
    /\ Len(bullets) = 2
    /\ Len(wPrev.bullets) = 1
    /\ wHist.reqs >= 3
    /\ \E s \in wHist.shots : wHist.shots = {s, s + weapon.cooldown}

---------------------------------------------------------------------------
(* Claims on the invulnerability window in play (SpecGame) *)

\* C37: within one Game.update tick the player's health is reduced at most
\* once, even when enemy contact, boss contact and a boss-projectile hit
\* all occur in that tick, and between any two reductions of the player's
\* health at least 0.6 s of accumulated update dt elapses.
C37_OneHitPerWindow ==
    /\ Len(log.hurts) <= 1
    /\ log.gap >= 0 => log.gap >= INVULN_TIME

\* the player, in contact with an enemy throughout, has just lost health
\* for the second time, 0.6 s of updates after the first
C37_Witness ==
    /\ Len(log.hurts) = 1
    /\ log.gap = INVULN_TIME
    /\ player.health = player.max_health - 2 * ENEMY_DAMAGE
    /\ \E j \in DOMAIN log.events : log.events[j].ev = "contact"

---------------------------------------------------------------------------
(* Claims on jumping again in the air (SpecJump, SpecLedge, SpecMover) *)

\* can_jump as the buffered jump of the update found it
CanJumpSeen == trace.grounded \/ trace.timers.coyote_timer > 0

\* C38: after a jump has been executed (vel.y set to -JUMP_SPEED) no second
\* jump is executed, whatever jump requests arrive, until the player's
\* vertical collision step has landed it on a solid tile again; and neither
\* coyote time nor the ground probe makes the player eligible to jump again
\* while it is still ascending from the same jump.
C38_NoDoubleJump ==
    who = "player" =>
        /\ trace.jumped => ~trace.preAloft
        /\ (trace.preAloft /\ trace.afterY.vy < 0) => ~CanJumpSeen

\* a jump runs before the player is on a tile again only where the vertical
\* step has left its rectangle inside a solid tile
C38_OnlyInsideTiles ==
    (who = "player" /\ trace.jumped /\ trace.preAloft) =>
        /\ trace.hitY
        /\ trace.axVy < 0
        /\ RectCollidesSolid(LevelOf(level), trace.afterY.rect)

---------------------------------------------------------------------------
(* Claims on a projectile's targets (SpecGame) *)

\* the player's bullets of the last update as their own update moved them
MovedShots == [i \in DOMAIN log.before |-> BulletMoved(log.before[i], log.dt)]

\* a moved bullet that its own update destroyed: expired, or in a solid tile
Spent(m) ==
    \/ m.alive_time >= m.lifetime
    \/ RectCollidesSolid(LevelOf(level), RectOf(m))

\* C39: over its whole life a projectile reduces the health of at most one
\* entity, and a projectile destroyed by lifetime expiry or by solid-tile
\* overlap in its own update deals no damage to any enemy, boss or player
\* in that tick or later.  In the terms of one Game.update: the bullets its
\* bullet pass runs over are those its update did not destroy; each of them
\* hits at most one entity; the ones that hit are gone from the group, which
\* holds the others and, after them, only bullets fired since; and the
\* enemies lose health by these hits only.
C39_OneTarget ==
    /\ log.flying = SelectSeq(MovedShots, LAMBDA m : ~Spent(m))
    /\ \A i \in DOMAIN log.flying : Cardinality(HitsOf(i)) <= 1
    /\ Len(log.left) = Cardinality(Misses)
    /\ \A i \in Misses :
          log.left[Cardinality({m \in Misses : m <= i})] = log.flying[i]
    /\ Len(bullets) >= Len(log.left)
    /\ \A i \in DOMAIN bullets :
          IF i <= Len(log.left) THEN bullets[i] = log.left[i]
          ELSE bullets[i].alive_time = 0
    /\ \A k \in DOMAIN log.foes :
          \A m \in DOMAIN enemies :
              enemies[m].id = log.foes[k].id =>
                  enemies[m].health = log.foes[k].health
                      - BULLET_DAMAGE * Cardinality(HitsOn(log.foes[k].id))

\* in one update a bullet was destroyed by its own update and took no part
\* in the bullet pass, and another hit one enemy and left the group
C39_Witness ==
    /\ \E i \in DOMAIN MovedShots : Spent(MovedShots[i])
    /\ Len(log.flying) < Len(log.before)
    /\ Len(log.hits) = 1
    /\ Len(log.left) = Len(log.flying) - 1
    /\ \E k \in DOMAIN log.foes : HitsOn(log.foes[k].id) # {}

---------------------------------------------------------------------------
(* Claims on the player's death (SpecDeath) *)

\* a player whose health is 0 is never left in play
C40_NotPlaying == IsDead(player) => state # "PLAYING"

\* while the state is not PLAYING no update call changes the player, the
\* level entities or the projectile collections
C40_Stopped ==
    [][state # "PLAYING" =>
          UNCHANGED <<player, enemies, boss, pickups, bullets,
                      boss_bullets>>]_vars

\* C40: if the player's health is 0 at the end of a Game.update tick, the
\* game state after that tick is GAME_OVER (never PLAYING and never
\* LEVEL_COMPLETE, even when the player overlaps the exit in that tick), and
\* while the state is not PLAYING no update call changes the player, the
\* level entities or the projectile collections.
C40_DeathEndsPlay ==
    /\ [](player.health = 0 => state = "GAME_OVER")
    /\ C40_Stopped

=========================================================================
